---------------------------- MODULE Spec2Model ----------------------------
(***************************************************************************)
(* A model of griffonner: the plugin registry (plugins/manager.py), the    *)
(* file classifier and the generation orchestrator (core.py) and the watch *)
(* handler (watcher.py).                                                   *)
(*                                                                         *)
(* Text (names, paths, glob patterns, file content) is a sequence of       *)
(* one-character strings, so that concatenation, prefix tests and glob     *)
(* matching are computed and not assumed.  A Python dict is a sequence of  *)
(* [k, v] pairs in insertion order.                                        *)
(***************************************************************************)
EXTENDS Integers, Sequences, FiniteSets, TLC

(***************************************************************************)
(* Bounds of the model.                                                    *)
(***************************************************************************)
MaxEntryPoints == 2
MaxModules == 2
MaxSelected == 2
MaxFiles == 2
MaxTargets == 2
MaxPatterns == 1

(***************************************************************************)
(* Generic helpers.                                                        *)
(***************************************************************************)
Range(s) == {s[i] : i \in 1..Len(s)}

\* All sequences over S of length at most n without repeated elements.
DistinctSeqs(S, n) ==
    {s \in UNION {[1..k -> S] : k \in 0..n} :
        \A i, j \in 1..Len(s) : i # j => s[i] # s[j]}

\* All sequences over S of length at most n.
SeqsUpTo(S, n) == UNION {[1..k -> S] : k \in 0..n}

IsPrefix(p, s) == Len(p) <= Len(s) /\ SubSeq(s, 1, Len(p)) = p

(***************************************************************************)
(* Python dict: insertion-ordered; assigning an existing key keeps its     *)
(* position and replaces its value.                                        *)
(***************************************************************************)
DictHas(d, key) == \E i \in 1..Len(d) : d[i].k = key

DictGet(d, key) == d[CHOOSE i \in 1..Len(d) : d[i].k = key].v

DictSet(d, key, val) ==
    IF DictHas(d, key)
    THEN [i \in 1..Len(d) |-> IF d[i].k = key THEN [k |-> key, v |-> val] ELSE d[i]]
    ELSE Append(d, [k |-> key, v |-> val])

DictKeys(d) == [i \in 1..Len(d) |-> d[i].k]

DictValues(d) == [i \in 1..Len(d) |-> d[i].v]

(***************************************************************************)
(* Processor objects.  getattr(p, "priority", 100) and                     *)
(* getattr(p, "name", "unknown") read optional attributes; an object       *)
(* either raises in process() or returns.  A processor that is `deep`      *)
(* writes through a nested value of the context, which context.copy()      *)
(* (a shallow copy) shares with the caller's dict.                         *)
(***************************************************************************)
DEFAULT_PRIORITY == 100

UNKNOWN == <<"u", "n", "k", "n", "o", "w", "n">>

Proc(id, hasName, name, hasPriority, priority, raises, deep) ==
    [id |-> id, hasName |-> hasName, name |-> name,
     hasPriority |-> hasPriority, priority |-> priority,
     raises |-> raises, deep |-> deep]

\* getattr(p, "priority", 100)
GetPriority(p) == IF p.hasPriority THEN p.priority ELSE DEFAULT_PRIORITY

\* getattr(processor, "name", "unknown")
GetName(p) == IF p.hasName THEN p.name ELSE UNKNOWN

(***************************************************************************)
(* Errors.  NoError is "the call returned".                                *)
(***************************************************************************)
NoError == [raised |-> FALSE, type |-> "", name |-> <<>>, group |-> ""]

Raise(type, name, group) ==
    [raised |-> TRUE, type |-> type, name |-> name, group |-> group]

(***************************************************************************)
(* The installed plugins the registry can discover.  An entry point has a  *)
(* group, a name and a value; entry_point.load() returns the value or      *)
(* raises.  These tables are the program's input universe; Init draws the  *)
(* installed entry points and the configured local modules from them.      *)
(***************************************************************************)
G_PROCESSORS == "griffonner.processors"
G_FILTERS == "griffonner.filters"
G_BUNDLES == "griffonner.bundles"

P_low == Proc("low", TRUE, <<"l">>, TRUE, 50, FALSE, FALSE)
P_def == Proc("def", TRUE, <<"d">>, FALSE, 0, FALSE, TRUE)
P_bad == Proc("bad", TRUE, <<"p">>, TRUE, 100, TRUE, FALSE)
P_bun == Proc("bun", TRUE, <<"p">>, TRUE, 150, FALSE, FALSE)

Filter(id) == [id |-> id]

Bundle(id, procs, filts) == [id |-> id, processors |-> procs, filters |-> filts]

B_one ==
    Bundle("one",
           << [k |-> <<"p">>, v |-> P_bun] >>,
           << [k |-> <<"f">>, v |-> Filter("bun_f")] >>)

EntryPoint(group, name, value, ok) ==
    [group |-> group, name |-> name, value |-> value, ok |-> ok]

EntryPointUniverse ==
    { EntryPoint(G_PROCESSORS, <<"p">>, P_low, TRUE),
      EntryPoint(G_PROCESSORS, <<"q">>, P_def, TRUE),
      EntryPoint(G_PROCESSORS, <<"p">>, P_bad, TRUE),
      EntryPoint(G_PROCESSORS, <<"r">>, P_low, FALSE),
      EntryPoint(G_FILTERS, <<"f">>, Filter("ep_f"), TRUE),
      EntryPoint(G_FILTERS, <<"g">>, Filter("ep_g"), FALSE),
      EntryPoint(G_BUNDLES, <<"m">>, B_one, TRUE),
      EntryPoint(G_BUNDLES, <<"b">>, B_one, FALSE) }

\* the installed entry points of the registry runs: one loadable and one
\* broken entry per group
RegistryEntryPoints ==
    {e \in EntryPointUniverse : e.value \in {P_low, Filter("ep_f"), Filter("ep_g"), B_one}}

\* the installed entry points of the pipeline runs: the loadable processors
ProcessEntryPoints ==
    {e \in EntryPointUniverse : e.ok /\ e.group = G_PROCESSORS}

(***************************************************************************)
(* Importable local modules: the attributes of each, in dir() order.  A    *)
(* class attribute carries the instance attr() builds (or instOK = FALSE   *)
(* when its constructor raises).                                           *)
(***************************************************************************)
Attr(attr, kind, hasProcess, definedHere, instOK, instance) ==
    [attr |-> attr, kind |-> kind, hasProcess |-> hasProcess,
     definedHere |-> definedHere, instOK |-> instOK, instance |-> instance]

NoInstance == Proc("", FALSE, <<>>, FALSE, 0, FALSE, FALSE)

M_m == <<"m">>
M_n == <<"n">>
M_x == <<"x">>

ModuleNames == {M_m, M_n, M_x}

\* importlib.import_module(module_name) succeeds
ImportOK(module_name) == module_name # M_x

ModuleAttrs(module_name) ==
    IF module_name = M_m THEN
      << Attr(<<"B">>, "class", TRUE, FALSE, TRUE,
              Proc("m.B", TRUE, <<"b">>, TRUE, 10, FALSE, FALSE)),
         Attr(<<"P">>, "class", TRUE, TRUE, TRUE,
              Proc("m.P", FALSE, <<>>, FALSE, 0, TRUE, FALSE)),
         Attr(<<"Q">>, "class", TRUE, TRUE, TRUE,
              Proc("m.Q", TRUE, <<"p">>, TRUE, 100, FALSE, FALSE)),
         Attr(<<"_", "h">>, "function", FALSE, TRUE, TRUE, NoInstance),
         Attr(<<"f">>, "function", FALSE, TRUE, TRUE, NoInstance) >>
    ELSE IF module_name = M_n THEN
      << Attr(<<"N">>, "class", FALSE, TRUE, TRUE, NoInstance),
         Attr(<<"P">>, "class", TRUE, TRUE, TRUE,
              Proc("n.P", TRUE, <<"p">>, TRUE, 150, FALSE, TRUE)),
         Attr(<<"R", "S">>, "class", TRUE, TRUE, FALSE, NoInstance),
         Attr(<<"f">>, "function", FALSE, TRUE, TRUE, NoInstance),
         Attr(<<"v">>, "value", FALSE, TRUE, TRUE, NoInstance) >>
    ELSE << >>

(***************************************************************************)
(* Names.                                                                  *)
(***************************************************************************)
UPPER == {"B", "N", "P", "Q", "R", "S"}

Lower(c) ==
    CASE c = "B" -> "b" [] c = "N" -> "n" [] c = "P" -> "p"
      [] c = "Q" -> "q" [] c = "R" -> "r" [] c = "S" -> "s"
      [] OTHER -> c

\* re.sub(r"(?<!^)([A-Z])", r"_\1", class_name).lower()
RECURSIVE SnakeFrom(_, _)
SnakeFrom(class_name, i) ==
    IF i > Len(class_name) THEN << >>
    ELSE (IF i > 1 /\ class_name[i] \in UPPER
          THEN <<"_", Lower(class_name[i])>>
          ELSE <<Lower(class_name[i])>>) \o SnakeFrom(class_name, i + 1)

ClassNameToSnakeCase(class_name) == SnakeFrom(class_name, 1)

\* f"{module_name}.{processor_name}", f"{bundle_name}.{proc_name}"
Qualified(prefix, name) == prefix \o <<".">> \o name

StartsWithUnderscore(attr_name) == Len(attr_name) > 0 /\ attr_name[1] = "_"

(***************************************************************************)
(* State.                                                                  *)
(***************************************************************************)
VARIABLES
    \* the environment of the registry
    all_entry_points,      \* importlib.metadata.entry_points(), in order
    local_plugin_modules,  \* PluginManager.local_plugin_modules
    \* PluginManager
    processors,            \* self._processors
    filters,               \* self._filters
    bundles,               \* self._bundles
    loaded,                \* self._loaded
    \* the caller of the registry
    context,               \* the caller's context dict
    call,                  \* what the last call of the registry did
    \* the file system and a generation session
    tree,                  \* the files under the source root, in rglob order
    ignore_patterns,       \* the session's ignore globs
    dir,                   \* generate_directory: its locals and its outcome
    watch,                 \* the watch handler: the last event and its outcome
    written,               \* the outputs written by the current operation
    log,                   \* every write so far: by which operation, for which
                           \* source file, where and what
    disk,                  \* the output tree: its directories and files
    invocation,            \* the last direct call of generate_file or
                           \* copy_file_passthrough and its outcome
    watcher,               \* DocumentationWatcher: where watch() is, its
                           \* observer and the interrupt
    threads                \* callers of one registry on threads of their own:
                           \* where each is in its call, and what it got

registryVars ==
    <<all_entry_points, local_plugin_modules, processors, filters, bundles,
      loaded, context, call>>

sessionVarsButThreads ==
    <<tree, ignore_patterns, dir, watch, written, log, disk, invocation, watcher>>

sessionVars == <<sessionVarsButThreads, threads>>

vars == <<registryVars, sessionVars>>

(***************************************************************************)
(* PluginManager._load_entry_points: the entries of one group in order;    *)
(* the first entry whose load() raises aborts with PluginLoadError, the    *)
(* entries before it stay in target_dict.                                  *)
(***************************************************************************)
\* all_entry_points.select(group=group)
SelectGroup(eps, group) == SelectSeq(eps, LAMBDA e : e.group = group)

\* a loader that logs a broken entry and goes on
RECURSIVE LoadEntriesSkipping(_, _, _, _)
LoadEntriesSkipping(entries, i, group, target_dict) ==
    IF i > Len(entries) THEN [dict |-> target_dict, err |-> NoError]
    ELSE LoadEntriesSkipping(entries, i + 1, group,
             IF entries[i].ok
             THEN DictSet(target_dict, entries[i].name, entries[i].value)
             ELSE target_dict)

RECURSIVE LoadEntries(_, _, _, _)
LoadEntries(entries, i, group, target_dict) ==
    IF i > Len(entries) THEN [dict |-> target_dict, err |-> NoError]
    ELSE IF entries[i].ok
         THEN LoadEntries(entries, i + 1, group,
                          DictSet(target_dict, entries[i].name, entries[i].value))
         ELSE [dict |-> target_dict,
               err |-> Raise("PluginLoadError", entries[i].name, group)]

LoadEntryPoints(eps, group, target_dict) ==
    LoadEntries(SelectGroup(eps, group), 1, group, target_dict)

(***************************************************************************)
(* PluginManager._extract_processors_from_module and                       *)
(* _extract_filters_from_module.                                           *)
(***************************************************************************)
\* isinstance(attr, type) and _is_processor_class and _is_defined_in_module
IsProcessorCandidate(a) ==
    /\ ~StartsWithUnderscore(a.attr)
    /\ a.kind = "class"
    /\ a.hasProcess
    /\ a.definedHere

\* processor_instance.name if it has one, else the snake_case class name
ProcessorName(a) ==
    IF a.instance.hasName THEN a.instance.name ELSE ClassNameToSnakeCase(a.attr)

\* if name not in self._processors: self._processors[name] = instance
RegisterBare(dict, name, val) ==
    IF DictHas(dict, name) THEN dict ELSE DictSet(dict, name, val)

RECURSIVE ExtractProcessors(_, _, _, _)
ExtractProcessors(attrs, i, module_name, procs) ==
    IF i > Len(attrs) THEN procs
    ELSE IF IsProcessorCandidate(attrs[i]) /\ attrs[i].instOK
         THEN LET name == ProcessorName(attrs[i])
                  bare == RegisterBare(procs, name, attrs[i].instance)
              IN  ExtractProcessors(attrs, i + 1, module_name,
                      DictSet(bare, Qualified(module_name, name), attrs[i].instance))
         ELSE ExtractProcessors(attrs, i + 1, module_name, procs)

\* callable(attr) and not isinstance(attr, type)
IsFilterCandidate(a) ==
    /\ ~StartsWithUnderscore(a.attr)
    /\ a.kind = "function"

\* the function object found in the module
FilterOf(module_name, a) == Filter(<<module_name, a.attr>>)

RECURSIVE ExtractFilters(_, _, _, _)
ExtractFilters(attrs, i, module_name, filts) ==
    IF i > Len(attrs) THEN filts
    ELSE IF IsFilterCandidate(attrs[i])
         THEN LET f == FilterOf(module_name, attrs[i])
                  bare == RegisterBare(filts, attrs[i].attr, f)
              IN  ExtractFilters(attrs, i + 1, module_name,
                      DictSet(bare, Qualified(module_name, attrs[i].attr), f))
         ELSE ExtractFilters(attrs, i + 1, module_name, filts)

(***************************************************************************)
(* PluginManager._load_local_plugin_modules: a module whose import fails   *)
(* is skipped.                                                             *)
(***************************************************************************)
\* a loader that gives up the remaining modules when an import fails
RECURSIVE LoadLocalPluginModulesAborting(_, _, _, _)
LoadLocalPluginModulesAborting(mods, i, procs, filts) ==
    IF i > Len(mods) THEN [processors |-> procs, filters |-> filts]
    ELSE IF ImportOK(mods[i])
         THEN LoadLocalPluginModulesAborting(mods, i + 1,
                  ExtractProcessors(ModuleAttrs(mods[i]), 1, mods[i], procs),
                  ExtractFilters(ModuleAttrs(mods[i]), 1, mods[i], filts))
         ELSE [processors |-> procs, filters |-> filts]

RECURSIVE LoadLocalPluginModules(_, _, _, _)
LoadLocalPluginModules(mods, i, procs, filts) ==
    IF i > Len(mods) THEN [processors |-> procs, filters |-> filts]
    ELSE IF ImportOK(mods[i])
         THEN LoadLocalPluginModules(mods, i + 1,
                  ExtractProcessors(ModuleAttrs(mods[i]), 1, mods[i], procs),
                  ExtractFilters(ModuleAttrs(mods[i]), 1, mods[i], filts))
         ELSE LoadLocalPluginModules(mods, i + 1, procs, filts)

(***************************************************************************)
(* PluginManager.load_plugins, lines 79-100: each loaded bundle is kept    *)
(* and its components are registered as "bundle.component".                *)
(***************************************************************************)
RECURSIVE AddQualified(_, _, _, _)
AddQualified(components, i, prefix, dict) ==
    IF i > Len(components) THEN dict
    ELSE AddQualified(components, i + 1, prefix,
             DictSet(dict, Qualified(prefix, components[i].k), components[i].v))

RECURSIVE ProcessBundles(_, _, _)
ProcessBundles(loadedBundles, i, reg) ==
    IF i > Len(loadedBundles) THEN reg
    ELSE LET bundle_name == loadedBundles[i].k
             bundle == loadedBundles[i].v
         IN  ProcessBundles(loadedBundles, i + 1,
                 [processors |-> AddQualified(bundle.processors, 1, bundle_name,
                                              reg.processors),
                  filters |-> AddQualified(bundle.filters, 1, bundle_name,
                                           reg.filters),
                  bundles |-> DictSet(reg.bundles, bundle_name, bundle)])

(***************************************************************************)
(* PluginManager.load_plugins as a function of the registry and its        *)
(* environment: the maps and the flag it leaves, the error it raises, and  *)
(* whether it ran discovery.                                               *)
(***************************************************************************)
Registry(procs, filts, bunds, isLoaded, err, discovered) ==
    [processors |-> procs, filters |-> filts, bundles |-> bunds,
     loaded |-> isLoaded, err |-> err, discovered |-> discovered]

\* a discovery that sets self._loaded before it starts, so that the flag
\* stays set when an entry fails
DiscoverMarking(reg, eps, mods) ==
    LET r1 == LoadEntryPoints(eps, G_PROCESSORS, reg.processors)
        r2 == LoadEntryPoints(eps, G_FILTERS, reg.filters)
        loc == LoadLocalPluginModules(mods, 1, r1.dict, r2.dict)
        r3 == LoadEntryPoints(eps, G_BUNDLES, << >>)
        b == ProcessBundles(r3.dict, 1,
                 [processors |-> loc.processors, filters |-> loc.filters,
                  bundles |-> reg.bundles])
    IN  IF r1.err.raised
        THEN Registry(r1.dict, reg.filters, reg.bundles, TRUE, r1.err, TRUE)
        ELSE IF r2.err.raised
        THEN Registry(r1.dict, r2.dict, reg.bundles, TRUE, r2.err, TRUE)
        ELSE IF r3.err.raised
        THEN Registry(loc.processors, loc.filters, reg.bundles, TRUE, r3.err, TRUE)
        ELSE Registry(b.processors, b.filters, b.bundles, TRUE, NoError, TRUE)

Discover(reg, eps, mods) ==
    LET r1 == LoadEntryPoints(eps, G_PROCESSORS, reg.processors)
        r2 == LoadEntryPoints(eps, G_FILTERS, reg.filters)
        loc == LoadLocalPluginModules(mods, 1, r1.dict, r2.dict)
        r3 == LoadEntryPoints(eps, G_BUNDLES, << >>)
        b == ProcessBundles(r3.dict, 1,
                 [processors |-> loc.processors, filters |-> loc.filters,
                  bundles |-> reg.bundles])
    IN  IF r1.err.raised
        THEN Registry(r1.dict, reg.filters, reg.bundles, FALSE, r1.err, TRUE)
        ELSE IF r2.err.raised
        THEN Registry(r1.dict, r2.dict, reg.bundles, FALSE, r2.err, TRUE)
        ELSE IF r3.err.raised
        THEN Registry(loc.processors, loc.filters, reg.bundles, FALSE, r3.err, TRUE)
        ELSE Registry(b.processors, b.filters, b.bundles, TRUE, NoError, TRUE)

\* a load without the `if self._loaded: return` guard
LoadPluginsAlways(reg, eps, mods) == Discover(reg, eps, mods)

LoadPluginsOf(reg, eps, mods) ==
    IF reg.loaded
    THEN Registry(reg.processors, reg.filters, reg.bundles, TRUE, NoError, FALSE)
    ELSE Discover(reg, eps, mods)

\* self.load_plugins() on the current state
Loaded ==
    LoadPluginsOf([processors |-> processors, filters |-> filters,
                   bundles |-> bundles, loaded |-> loaded],
                  all_entry_points, local_plugin_modules)

(***************************************************************************)
(* processors.sort(key=lambda p: getattr(p, "priority", 100)): list.sort   *)
(* is stable, so it is an insertion that keeps equal keys in their order.  *)
(***************************************************************************)
\* the number of leading elements of s whose key is at most that of p
RECURSIVE UpTo(_, _, _)
UpTo(s, p, i) ==
    IF i <= Len(s) /\ GetPriority(s[i]) <= GetPriority(p)
    THEN UpTo(s, p, i + 1)
    ELSE i - 1

\* a sort that is not stable: the new element goes before its equals
InsertBeforeEquals(s, p) ==
    LET n == Cardinality({i \in 1..Len(s) : GetPriority(s[i]) < GetPriority(p)})
    IN  SubSeq(s, 1, n) \o <<p>> \o SubSeq(s, n + 1, Len(s))

InsertByPriority(s, p) ==
    LET n == UpTo(s, p, 1)
    IN  SubSeq(s, 1, n) \o <<p>> \o SubSeq(s, n + 1, Len(s))

RECURSIVE SortFrom(_, _, _)
SortFrom(list, i, acc) ==
    IF i > Len(list) THEN acc
    ELSE SortFrom(list, i + 1, InsertByPriority(acc, list[i]))

SortByPriority(list) == SortFrom(list, 1, << >>)

(***************************************************************************)
(* PluginManager.process_griffe_object.                                    *)
(***************************************************************************)
\* the caller's context before the call
FreshContext == [top |-> << >>, nested |-> << >>]

\* lines 205-217: all registered processors, or the named ones in the
\* order of the names; the first absent name raises PluginError
\* a resolution that skips an absent name instead of raising
RECURSIVE ResolveSkipping(_, _, _, _)
ResolveSkipping(procs, processor_names, i, acc) ==
    IF i > Len(processor_names) THEN [list |-> acc, err |-> NoError]
    ELSE ResolveSkipping(procs, processor_names, i + 1,
             IF DictHas(procs, processor_names[i])
             THEN Append(acc, DictGet(procs, processor_names[i]))
             ELSE acc)

RECURSIVE Resolve(_, _, _, _)
Resolve(procs, processor_names, i, acc) ==
    IF i > Len(processor_names) THEN [list |-> acc, err |-> NoError]
    ELSE IF DictHas(procs, processor_names[i])
         THEN Resolve(procs, processor_names, i + 1,
                      Append(acc, DictGet(procs, processor_names[i])))
         ELSE [list |-> acc, err |-> Raise("PluginError", processor_names[i], "")]

Collect(procs, given, processor_names) ==
    IF ~given
    THEN [list |-> DictValues(procs), err |-> NoError]
    ELSE Resolve(procs, processor_names, 1, << >>)

\* processor.process(current_obj, current_context) of a processor that
\* returns: it marks the copy, and a `deep` one also the shared nested value
Apply(p, cur) ==
    [top |-> Append(cur.top, p.id),
     nested |-> IF p.deep THEN Append(cur.nested, p.id) ELSE cur.nested]

\* lines 232-243: run in sequence; the first processor that raises aborts
\* with PluginError carrying getattr(processor, "name", "unknown")
RECURSIVE RunProcessors(_, _, _, _)
RunProcessors(list, i, cur, invoked) ==
    IF i > Len(list) THEN [invoked |-> invoked, cur |-> cur, err |-> NoError]
    ELSE IF list[i].raises
         THEN [invoked |-> Append(invoked, list[i]), cur |-> cur,
               err |-> Raise("PluginError", GetName(list[i]), "")]
         ELSE RunProcessors(list, i + 1, Apply(list[i], cur),
                            Append(invoked, list[i]))

\* `owner` names the registry map the returned object IS ("" for an object
\* the registry holds no reference to); `mutated` tells that the caller has
\* changed the returned object since
Call(op, err, discovered, given, names, collected, invoked, returned, value) ==
    [op |-> op, err |-> err, discovered |-> discovered, given |-> given,
     names |-> names, collected |-> collected, invoked |-> invoked,
     returned |-> returned, value |-> value, owner |-> "", mutated |-> FALSE]

\* `return self._processors`: the registry's own map is handed out
DictAlias(owner) == owner

\* `return self._processors.copy()`: a new dict with the same items
DictCopy(owner) == ""

NoCall == Call("", NoError, FALSE, FALSE, << >>, << >>, << >>, FALSE, << >>)

\* the record of a call that only loads and then returns `value`
Access(op, L, value) ==
    Call(op, L.err, L.discovered, FALSE, << >>, << >>, << >>,
         ~L.err.raised, IF L.err.raised THEN << >> ELSE value)

\* the record of an accessor that loads and returns a copy of the map `owner`
Returned(op, L, value, owner) ==
    [Access(op, L, value) EXCEPT !.owner = IF L.err.raised THEN "" ELSE DictCopy(owner)]

ProcessGriffeObjectOf(L, given, processor_names) ==
    LET c == Collect(L.processors, given, processor_names)
        r == RunProcessors(SortByPriority(c.list), 1, FreshContext, << >>)
    IN  IF L.err.raised
        THEN [call |-> Call("process_griffe_object", L.err, L.discovered, given,
                            processor_names, << >>, << >>, FALSE, << >>),
              context |-> FreshContext]
        ELSE IF c.err.raised
        THEN [call |-> Call("process_griffe_object", c.err, L.discovered, given,
                            processor_names, c.list, << >>, FALSE, << >>),
              context |-> FreshContext]
        ELSE [call |-> Call("process_griffe_object", r.err, L.discovered, given,
                            processor_names, c.list, r.invoked, ~r.err.raised,
                            IF r.err.raised THEN << >> ELSE r.cur.top),
              \* the caller keeps its own top-level keys; the nested value is
              \* shared with the copy the processors worked on
              context |-> [top |-> FreshContext.top, nested |-> r.cur.nested]]

(***************************************************************************)
(* The operations of the registry.  Every one starts with load_plugins(),  *)
(* which is the only writer of the three maps and of the flag.             *)
(***************************************************************************)
SetRegistry(L) ==
    /\ processors' = L.processors
    /\ filters' = L.filters
    /\ bundles' = L.bundles
    /\ loaded' = L.loaded
    /\ UNCHANGED <<all_entry_points, local_plugin_modules>>

LoadPlugins ==
    LET L == Loaded
    IN  /\ SetRegistry(L)
        /\ call' = Access("load_plugins", L, << >>)
        /\ context' = FreshContext
        /\ UNCHANGED sessionVars

GetProcessors ==
    LET L == Loaded
    IN  /\ SetRegistry(L)
        /\ call' = Returned("get_processors", L, L.processors, "processors")
        /\ context' = FreshContext
        /\ UNCHANGED sessionVars

GetFilters ==
    LET L == Loaded
    IN  /\ SetRegistry(L)
        /\ call' = Returned("get_filters", L, L.filters, "filters")
        /\ context' = FreshContext
        /\ UNCHANGED sessionVars

GetBundles ==
    LET L == Loaded
    IN  /\ SetRegistry(L)
        /\ call' = Returned("get_bundles", L, L.bundles, "bundles")
        /\ context' = FreshContext
        /\ UNCHANGED sessionVars

(***************************************************************************)
(* What a caller does with the dict an accessor returned: it adds a key,   *)
(* removes one or replaces the value of one.  A dict is an object: when    *)
(* the returned object is one of the registry's maps, the registry sees    *)
(* the change as well.                                                     *)
(***************************************************************************)
AccessorOps == {"get_processors", "get_filters", "get_bundles"}

\* a value the caller puts in, which no discovery registers
Foreign == [foreign |-> TRUE]

DictDel(d, key) == SelectSeq(d, LAMBDA e : e.k # key)

\* d[key] = Foreign for a new or a present key, and del d[key]
Mutations(d) ==
    {DictSet(d, <<"z">>, Foreign)}
        \cup {DictSet(d, d[i].k, Foreign) : i \in 1..Len(d)}
        \cup {DictDel(d, d[i].k) : i \in 1..Len(d)}

\* the registry map `name` after the caller changed the object owned by `owner`
Seen(name, owner, current, changed) == IF owner = name THEN changed ELSE current

MutateReturned ==
    /\ call.op \in AccessorOps
    /\ call.returned
    /\ \E v \in Mutations(call.value) :
           /\ call' = [call EXCEPT !.value = v, !.mutated = TRUE]
           /\ processors' = Seen("processors", call.owner, processors, v)
           /\ filters' = Seen("filters", call.owner, filters, v)
           /\ bundles' = Seen("bundles", call.owner, bundles, v)
    /\ UNCHANGED <<all_entry_points, local_plugin_modules, loaded, context>>
    /\ UNCHANGED sessionVars

ListPlugins ==
    LET L == Loaded
    IN  /\ SetRegistry(L)
        /\ call' = Access("list_plugins", L,
                          <<DictKeys(L.processors), DictKeys(L.filters),
                            DictKeys(L.bundles)>>)
        /\ context' = FreshContext
        /\ UNCHANGED sessionVars

\* the bundle names a caller asks about
BundleNames == {<<"m">>, <<"b">>}

GetBundleInfo ==
    LET L == Loaded
    IN  \E bundle_name \in BundleNames :
            /\ SetRegistry(L)
            /\ call' = Access("get_bundle_info", L,
                              IF DictHas(L.bundles, bundle_name)
                              THEN <<DictGet(L.bundles, bundle_name).id>>
                              ELSE << >>)
            /\ context' = FreshContext
            /\ UNCHANGED sessionVars

\* the processor names a caller selects: registered bare and qualified
\* names, and one that is never registered
SelectableNames == {<<"p">>, <<"m", ".", "p">>, <<"z">>}

Selection(given, names) == [given |-> given, names |-> names]

\* processor_names: None, or any list of selectable names
AllSelections ==
    {Selection(FALSE, << >>)}
        \cup {Selection(TRUE, n) : n \in SeqsUpTo(SelectableNames, MaxSelected)}

\* processor_names: None, one registered name, one unknown name
FewSelections ==
    {Selection(FALSE, << >>), Selection(TRUE, << <<"p">> >>),
     Selection(TRUE, << <<"z">> >>)}

ProcessGriffeObject(Selections) ==
    LET L == Loaded
    IN  \E sel \in Selections :
            LET r == ProcessGriffeObjectOf(L, sel.given, sel.names)
            IN  /\ SetRegistry(L)
                /\ call' = r.call
                /\ context' = r.context
                /\ UNCHANGED sessionVars

(***************************************************************************)
(* Paths.  A path is the sequence of its components (pathlib's parts); a   *)
(* component is text.  relative_to is lexical: it succeeds exactly when    *)
(* the directory's parts are a prefix of the path's parts.                 *)
(***************************************************************************)
SOURCE_DIR == << <<"s">> >>
OUTPUT_DIR == << <<"o">> >>

\* path.relative_to(directory) does not raise ValueError
IsRelativeTo(path, directory) == IsPrefix(directory, path)

\* path.relative_to(directory)
RelativeTo(path, directory) == SubSeq(path, Len(directory) + 1, Len(path))

\* path.parent
Parent(path) == SubSeq(path, 1, Len(path) - 1)

\* str(relative_path): the components joined by "/"
RECURSIVE PathStr(_)
PathStr(rel) ==
    IF rel = << >> THEN << >>
    ELSE IF Len(rel) = 1 THEN rel[1]
    ELSE rel[1] \o <<"/">> \o PathStr(Tail(rel))

\* .replace("\\", "/")
Normalise(str) == [i \in 1..Len(str) |-> IF str[i] = "\\" THEN "/" ELSE str[i]]

\* the order of str on the characters of the model
CharOrd(c) ==
    CASE c = "/" -> 47 [] c = "1" -> 49 [] c = "2" -> 50 [] c = "3" -> 51
      [] c = "\\" -> 92 [] c = "a" -> 97 [] c = "b" -> 98 [] c = "c" -> 99
      [] c = "o" -> 111 [] c = "s" -> 115 [] c = "t" -> 116
      [] OTHER -> 0

RECURSIVE StrLess(_, _)
StrLess(x, y) ==
    IF y = << >> THEN FALSE
    ELSE IF x = << >> THEN TRUE
    ELSE IF x[1] = y[1] THEN StrLess(Tail(x), Tail(y))
    ELSE CharOrd(x[1]) < CharOrd(y[1])

\* Path.__lt__: the parts compared as lists of str
RECURSIVE PathLess(_, _)
PathLess(x, y) ==
    IF y = << >> THEN FALSE
    ELSE IF x = << >> THEN TRUE
    ELSE IF x[1] = y[1] THEN PathLess(Tail(x), Tail(y))
    ELSE StrLess(x[1], y[1])

(***************************************************************************)
(* fnmatch.fnmatch(name, pattern) on POSIX: "*" matches any run of         *)
(* characters ("/" included), "?" any one character, anything else itself; *)
(* the whole name must match.  (Bracket classes are not in the alphabet.)  *)
(***************************************************************************)
RECURSIVE Match(_, _, _, _)
Match(pattern, i, name, j) ==
    IF i > Len(pattern) THEN j > Len(name)
    ELSE IF pattern[i] = "*"
         THEN \E k \in j..(Len(name) + 1) : Match(pattern, i + 1, name, k)
    ELSE IF pattern[i] = "?"
         THEN j <= Len(name) /\ Match(pattern, i + 1, name, j + 1)
    ELSE j <= Len(name) /\ name[j] = pattern[i]
            /\ Match(pattern, i + 1, name, j + 1)

Fnmatch(name, pattern) == Match(pattern, 1, name, 1)

(***************************************************************************)
(* Files.  A file has a path, may be unreadable as UTF-8 text, and has     *)
(* content; `doc` is what parse_frontmatter_file makes of the content of   *)
(* an annotated file: a parse error, or the output targets, each of which  *)
(* generates or fails (symbol load, pipeline, render or write); `copyOK`   *)
(* is whether shutil.copy2 of the file succeeds.                           *)
(***************************************************************************)
DELIMITER == <<"-", "-", "-", "\n">>

\* an output target that fails at `step` ("merge", "load", "render" or
\* "write") of its generation, or at none
TargetAt(filename, step) == [filename |-> filename, ok |-> step = "", step |-> step]

\* a target that generates, or whose symbol cannot be loaded
Target(filename, ok) == TargetAt(filename, IF ok THEN "" ELSE "load")

Doc(parseOK, output) == [parseOK |-> parseOK, output |-> output]

BadDoc == Doc(FALSE, << >>)

File(path, readable, content, doc, copyOK) ==
    [path |-> path, readable |-> readable, content |-> content, doc |-> doc,
     copyOK |-> copyOK]

\* the filename of the i-th output of a document
FILENAMES == << <<"1">>, <<"2">>, <<"3">>, <<"4">> >>

\* the documents: one that does not parse, and every list of at most
\* MaxTargets targets that generate or fail
Docs ==
    {BadDoc} \cup
    {Doc(TRUE, [i \in 1..Len(oks) |-> Target(FILENAMES[i], oks[i])]) :
        oks \in SeqsUpTo(BOOLEAN, MaxTargets)}

PLAIN == <<"t">>

\* what a source file can be
FileKinds ==
    {File(<< >>, FALSE, PLAIN, BadDoc, TRUE),
     File(<< >>, TRUE, PLAIN, BadDoc, TRUE),
     File(<< >>, TRUE, PLAIN, BadDoc, FALSE)}
    \cup {File(<< >>, TRUE, DELIMITER \o PLAIN, d, TRUE) : d \in Docs}

At(path, kind) == [kind EXCEPT !.path = path]

(***************************************************************************)
(* core.find_all_files: the regular files under the directory that match   *)
(* no ignore glob and can be read, sorted.                                 *)
(***************************************************************************)
\* lines 59-66: is_ignored
IsIgnored(path, directory, patterns) ==
    LET relative_str == Normalise(PathStr(RelativeTo(path, directory)))
    IN  \E i \in 1..Len(patterns) : Fnmatch(relative_str, patterns[i])

\* sorted(all_files)
RECURSIVE InsertPath(_, _)
InsertPath(s, f) ==
    IF s = << >> THEN <<f>>
    ELSE IF PathLess(f.path, s[1].path) THEN <<f>> \o s
    ELSE <<s[1]>> \o InsertPath(Tail(s), f)

RECURSIVE Sorted(_)
Sorted(files) ==
    IF files = << >> THEN << >>
    ELSE InsertPath(Sorted(Tail(files)), files[1])

FindAllFiles(files, directory, patterns) ==
    Sorted(SelectSeq(files, LAMBDA f :
        /\ IsRelativeTo(f.path, directory)
        /\ ~IsIgnored(f.path, directory, patterns)
        /\ f.readable))

(***************************************************************************)
(* core.categorise_files.                                                  *)
(***************************************************************************)
\* content.startswith("---\n")
StartsWithDelimiter(content) == IsPrefix(DELIMITER, content)

\* the file goes to frontmatter_files; a file that cannot be read goes to
\* passthrough_files
IsFrontmatterAlways(f) == StartsWithDelimiter(f.content)

IsFrontmatter(f) == f.readable /\ StartsWithDelimiter(f.content)

CategoriseFiles(files) ==
    [frontmatter_files |-> SelectSeq(files, IsFrontmatter),
     passthrough_files |-> SelectSeq(files, LAMBDA f : ~IsFrontmatter(f))]

(***************************************************************************)
(* core.copy_file_passthrough and core.generate_file: the outputs each     *)
(* writes, the paths it returns, the targets it attempts, the error it     *)
(* raises and whether it reaches the registry.                             *)
(***************************************************************************)
Write(out, src, kind) == [out |-> out, src |-> src, kind |-> kind]

\* a file put under the output root, with the content it gets
Put(out, src, kind, content) ==
    [out |-> out, src |-> src, kind |-> kind, content |-> content]

\* the writes of a call by the operation `by`, with the contents
Recorded(by, writes) ==
    {[by |-> by, src |-> writes[j].src, out |-> writes[j].out,
      content |-> IF writes[j].kind = "rendered"
                  THEN [text |-> << >>, rendering |-> <<writes[j].content>>]
                  ELSE [text |-> writes[j].content, rendering |-> << >>]] :
        j \in 1..Len(writes)}

\* the writes of a call, without the contents
Logged(writes) == {Write(writes[j].out, writes[j].src, writes[j].kind) : j \in 1..Len(writes)}

\* template_loader.render_template(template, processed_context): the
\* template of the document, the symbol of the target and the context
Render(src, target, processed_context) ==
    [src |-> src, target |-> target, processed_context |-> processed_context]

\* mkdir(parents=True, exist_ok=True): the directory and its ancestors
Dirs(path) == {SubSeq(path, 1, k) : k \in 1..Len(path)}

Outcome(writes, paths, targets, err, loads, dirs) ==
    [writes |-> writes, paths |-> paths, targets |-> targets, err |-> err,
     loads |-> loads, dirs |-> dirs]

\* an error of the orchestrator: its type, the source file, the target
\* and the exception it wraps
Fail(type, src, filename, cause) ==
    [raised |-> TRUE, type |-> type, src |-> src, filename |-> filename,
     cause |-> cause]

Done == [raised |-> FALSE, type |-> "", src |-> << >>, filename |-> << >>, cause |-> ""]

\* a copy that makes the output directories before it looks at the roots
CopyFilePassthroughEager(f, source_dir, output_dir) ==
    LET output_file == output_dir \o RelativeTo(f.path, source_dir)
    IN  IF ~IsRelativeTo(f.path, source_dir)
        THEN Outcome(<< >>, << >>, << >>,
                     Fail("GenerationError", f.path, << >>, "ValueError"), FALSE,
                     Dirs(output_dir))
        ELSE IF f.copyOK
        THEN Outcome(<<Put(output_file, f.path, "copied", f.content)>>,
                     <<output_file>>, << >>, Done, FALSE, Dirs(Parent(output_file)))
        ELSE Outcome(<< >>, << >>, << >>,
                     Fail("GenerationError", f.path, << >>, "OSError"), FALSE,
                     Dirs(Parent(output_file)))

\* a copy into the output root itself, whatever the file's directory
CopyFilePassthroughFlat(f, source_dir, output_dir) ==
    LET output_file == Append(output_dir, f.path[Len(f.path)])
    IN  IF ~IsRelativeTo(f.path, source_dir)
        THEN Outcome(<< >>, << >>, << >>,
                     Fail("GenerationError", f.path, << >>, "ValueError"), FALSE, {})
        ELSE IF f.copyOK
        THEN Outcome(<<Put(output_file, f.path, "copied", f.content)>>,
                     <<output_file>>, << >>, Done, FALSE, Dirs(Parent(output_file)))
        ELSE Outcome(<< >>, << >>, << >>,
                     Fail("GenerationError", f.path, << >>, "OSError"), FALSE,
                     Dirs(Parent(output_file)))

CopyFilePassthrough(f, source_dir, output_dir) ==
    LET output_file == output_dir \o RelativeTo(f.path, source_dir)
    IN  IF ~IsRelativeTo(f.path, source_dir)
        THEN Outcome(<< >>, << >>, << >>,
                     Fail("GenerationError", f.path, << >>, "ValueError"), FALSE, {})
        ELSE IF f.copyOK
        THEN Outcome(<<Put(output_file, f.path, "copied", f.content)>>,
                     <<output_file>>, << >>, Done, FALSE, Dirs(Parent(output_file)))
        ELSE Outcome(<< >>, << >>, << >>,
                     Fail("GenerationError", f.path, << >>, "OSError"), FALSE,
                     Dirs(Parent(output_file)))

\* lines 209-216: target_output_dir
TargetOutputDir(source_file, source_dir, output_dir) ==
    IF IsRelativeTo(Parent(source_file), source_dir)
    THEN output_dir \o RelativeTo(Parent(source_file), source_dir)
    ELSE output_dir

\* the exception a step of a target raises
StepError(step) ==
    CASE step = "merge" -> "TypeError"
      [] step = "load" -> "GriffeError"
      [] step = "render" -> "TemplateError"
      [] step = "write" -> "OSError"
      [] OTHER -> ""

\* the result of one target: the file it puts, or the error it raises
TargetResult(put, err) == [put |-> put, err |-> err]

\* a target that renders the context it prepared, not the processed one
GenerateTargetUnprocessed(f, target_dir, i, pipeline) ==
    LET item == f.doc.output[i]
        output_file == Append(target_dir, item.filename)
    IN  IF item.step \in {"merge", "load"}
        THEN TargetResult(<< >>, Fail("GenerationError", f.path, item.filename,
                                      StepError(item.step)))
        ELSE IF pipeline.err.raised
        THEN TargetResult(<< >>, Fail("GenerationError", f.path, item.filename,
                                      pipeline.err.type))
        ELSE IF item.step \in {"render", "write"}
        THEN TargetResult(<< >>, Fail("GenerationError", f.path, item.filename,
                                      StepError(item.step)))
        ELSE TargetResult(<<Put(output_file, f.path, "rendered",
                                Render(f.path, i, FreshContext.top))>>, Done)

\* a target whose try block ends before the render and the write
GenerateTargetUnwrapped(f, target_dir, i, pipeline) ==
    LET item == f.doc.output[i]
        output_file == Append(target_dir, item.filename)
    IN  IF item.step \in {"merge", "load"}
        THEN TargetResult(<< >>, Fail("GenerationError", f.path, item.filename,
                                      StepError(item.step)))
        ELSE IF pipeline.err.raised
        THEN TargetResult(<< >>, Fail("GenerationError", f.path, item.filename,
                                      pipeline.err.type))
        ELSE IF item.step \in {"render", "write"}
        THEN TargetResult(<< >>, Fail(StepError(item.step), f.path, << >>, ""))
        ELSE TargetResult(<<Put(output_file, f.path, "rendered",
                                Render(f.path, i, pipeline.value))>>, Done)

\* lines 239-318, one output item: merge the configs, load the symbol, run
\* the processors (all of them: the document selects none), render the
\* template against the processed context and write; whatever a step
\* raises is wrapped in a GenerationError naming the target and the source.
\* `pipeline` is what plugin_manager.process_griffe_object(...) does for
\* the target (lines 293-295): the registry is loaded by then, so it does
\* the same for each target of the document
GenerateTarget(f, target_dir, i, pipeline) ==
    LET item == f.doc.output[i]
        output_file == Append(target_dir, item.filename)
    IN  IF item.step \in {"merge", "load"}
        THEN TargetResult(<< >>, Fail("GenerationError", f.path, item.filename,
                                      StepError(item.step)))
        ELSE IF pipeline.err.raised
        THEN TargetResult(<< >>, Fail("GenerationError", f.path, item.filename,
                                      pipeline.err.type))
        ELSE IF item.step \in {"render", "write"}
        THEN TargetResult(<< >>, Fail("GenerationError", f.path, item.filename,
                                      StepError(item.step)))
        ELSE TargetResult(<<Put(output_file, f.path, "rendered",
                                Render(f.path, i, pipeline.value))>>, Done)

\* a loop that notes the first failing target and goes on to the others
RECURSIVE GenerateContinuing(_, _, _, _, _)
GenerateContinuing(f, target_dir, i, acc, pipeline) ==
    IF i > Len(f.doc.output) THEN acc
    ELSE LET t == GenerateTarget(f, target_dir, i, pipeline)
         IN  GenerateContinuing(f, target_dir, i + 1,
                 IF ~t.err.raised
                 THEN Outcome(acc.writes \o t.put,
                              Append(acc.paths, t.put[1].out),
                              Append(acc.targets, i), acc.err, TRUE, acc.dirs)
                 ELSE Outcome(acc.writes, << >>, Append(acc.targets, i),
                              IF acc.err.raised THEN acc.err ELSE t.err,
                              TRUE, acc.dirs),
                 pipeline)

\* lines 235-318: the targets in order from the i-th on; a failing target
\* raises GenerationError at once: the outputs written so far stay on
\* disk, nothing is returned and no later target is attempted
RECURSIVE GenerateTargets(_, _, _, _, _)
GenerateTargets(f, target_dir, i, acc, pipeline) ==
    IF i > Len(f.doc.output) THEN acc
    ELSE LET t == GenerateTarget(f, target_dir, i, pipeline)
         IN  IF ~t.err.raised
             THEN GenerateTargets(f, target_dir, i + 1,
                      Outcome(acc.writes \o t.put,
                              Append(acc.paths, t.put[1].out),
                              Append(acc.targets, i), Done, TRUE, acc.dirs),
                      pipeline)
             ELSE Outcome(acc.writes, << >>, Append(acc.targets, i), t.err,
                          TRUE, acc.dirs)

\* L is what the registry's load_plugins() gives when TemplateLoader asks
\* for the filters (line 229); a file that cannot be read or parsed fails
\* before the output directory is made (line 218)
\* file_path.exists(): the path names a file of the tree
Exists(path) == \E i \in 1..Len(tree) : tree[i].path = path

\* a generate_file that makes the output directory before it parses
GenerateFileMkdirFirst(f, source_dir, output_dir, L) ==
    LET target_dir == TargetOutputDir(f.path, source_dir, output_dir)
    IN  IF ~Exists(f.path)
        THEN Outcome(<< >>, << >>, << >>, Fail("FileNotFoundError", f.path, << >>, ""),
                     FALSE, Dirs(target_dir))
        ELSE IF ~f.readable
        THEN Outcome(<< >>, << >>, << >>, Fail("OSError", f.path, << >>, ""),
                     FALSE, Dirs(target_dir))
        ELSE IF ~f.doc.parseOK
        THEN Outcome(<< >>, << >>, << >>, Fail("ValueError", f.path, << >>, ""),
                     FALSE, Dirs(target_dir))
        ELSE IF L.err.raised
        THEN Outcome(<< >>, << >>, << >>,
                     Fail("PluginError", f.path, << >>, L.err.type),
                     TRUE, Dirs(target_dir))
        ELSE GenerateTargets(f, target_dir, 1,
                             Outcome(<< >>, << >>, << >>, Done, TRUE, Dirs(target_dir)),
                             ProcessGriffeObjectOf(L, FALSE, << >>).call)

\* lines 201-203: parse_frontmatter_file raises FileNotFoundError for a
\* path with no file (frontmatter.py:71-73), the error of read_text for a
\* file it cannot read, and ValueError for invalid frontmatter; none is
\* caught, and all come before the mkdir of line 218
GenerateFile(f, source_dir, output_dir, L) ==
    LET target_dir == TargetOutputDir(f.path, source_dir, output_dir)
    IN  IF ~Exists(f.path)
        THEN Outcome(<< >>, << >>, << >>, Fail("FileNotFoundError", f.path, << >>, ""),
                     FALSE, {})
        ELSE IF ~f.readable
        THEN Outcome(<< >>, << >>, << >>, Fail("OSError", f.path, << >>, ""), FALSE, {})
        ELSE IF ~f.doc.parseOK
        THEN Outcome(<< >>, << >>, << >>, Fail("ValueError", f.path, << >>, ""), FALSE, {})
        ELSE IF L.err.raised
        THEN Outcome(<< >>, << >>, << >>,
                     Fail("PluginError", f.path, << >>, L.err.type),
                     TRUE, Dirs(target_dir))
        ELSE GenerateTargets(f, target_dir, 1,
                             Outcome(<< >>, << >>, << >>, Done, TRUE, Dirs(target_dir)),
                             ProcessGriffeObjectOf(L, FALSE, << >>).call)

(***************************************************************************)
(* The output tree: the directories made and the files with the content    *)
(* last put in each.                                                       *)
(***************************************************************************)
EmptyDisk == [dirs |-> {}, files |-> {}]

RECURSIVE PutAll(_, _)
PutAll(files, writes) ==
    IF writes = << >> THEN files
    ELSE PutAll({e \in files : e.path # writes[1].out}
                    \cup {[path |-> writes[1].out, content |-> writes[1].content]},
                Tail(writes))

\* the output tree after a call with outcome r
DiskAfter(d, r) == [dirs |-> d.dirs \cup r.dirs, files |-> PutAll(d.files, r.writes)]

\* a direct call: the function, the file and the roots it was given, and
\* what it returned or raised
Invocation(op, f, source_dir, r) ==
    [op |-> op, f |-> f, source_dir |-> source_dir, returned |-> ~r.err.raised,
     paths |-> r.paths, err |-> r.err, targets |-> r.targets,
     wrote |-> r.writes, dirs |-> r.dirs]

NoInvocation ==
    [op |-> "", f |-> << >>, source_dir |-> << >>, returned |-> FALSE,
     paths |-> << >>, err |-> Done, targets |-> << >>, wrote |-> << >>, dirs |-> {}]

(***************************************************************************)
(* core.generate_directory, one step per loop iteration.                   *)
(***************************************************************************)
\* lines 411-415: the message of the aggregate error, "Processing completed
\* with {len(errors)} errors:" and one "  - {err}" line per error; the
\* record holds what the message states
ErrorMsg(errors) == [errors |-> Len(errors), items |-> errors]

NoErrorMsg == ErrorMsg(<< >>)

DirState(pc, all_files, frontmatter_files, passthrough_files, i, all_output_files, errors, attempted, targets, raised, returned, result, error_msg) ==
    [pc |-> pc, all_files |-> all_files, frontmatter_files |-> frontmatter_files,
     passthrough_files |-> passthrough_files, i |-> i,
     all_output_files |-> all_output_files, errors |-> errors,
     attempted |-> attempted, targets |-> targets, raised |-> raised,
     returned |-> returned, result |-> result, error_msg |-> error_msg]

Idle == DirState("idle", << >>, << >>, << >>, 1, << >>, << >>, << >>, << >>,
                 0, FALSE, << >>, NoErrorMsg)

\* errors = [...] in place of errors.append(...)
RecordOnlyLast(errors, err) == IF err.raised THEN <<err>> ELSE errors

\* lines 390-392 and 406-408: except Exception: errors.append(...)
RecordFailure(errors, err) == IF err.raised THEN Append(errors, err) ELSE errors

\* where the run goes after the frontmatter loop
AfterFrontmatter(passthrough_files) ==
    IF passthrough_files # << >> THEN "passthrough" ELSE "finish"

NoEvent ==
    [op |-> "", src_path |-> << >>, is_directory |-> FALSE, outcome |-> "",
     invoked |-> "", reported |-> FALSE, returned |-> TRUE, wrote |-> {}]

\* the registry after a call of generate_file with outcome r
RegistryAfter(r, L) ==
    IF r.loads
    THEN /\ SetRegistry(L)
         /\ call' = Returned("get_filters", L, L.filters, "filters")
         /\ context' = FreshContext
    ELSE UNCHANGED registryVars

GenerateDirectoryBegin ==
    /\ dir.pc = "idle"
    /\ watch = NoEvent
    /\ LET all_files == FindAllFiles(tree, SOURCE_DIR, ignore_patterns)
           c == CategoriseFiles(all_files)
       IN  dir' = IF all_files = << >>
                  THEN [dir EXCEPT !.pc = "done", !.returned = TRUE]
                  ELSE [dir EXCEPT
                           !.pc = IF c.frontmatter_files # << >> THEN "frontmatter"
                                  ELSE AfterFrontmatter(c.passthrough_files),
                           !.all_files = all_files,
                           !.frontmatter_files = c.frontmatter_files,
                           !.passthrough_files = c.passthrough_files]
    /\ UNCHANGED <<registryVars, tree, ignore_patterns, watch, written, log, disk, invocation, watcher, threads>>

ProcessFrontmatterFile ==
    /\ dir.pc = "frontmatter"
    /\ LET L == Loaded
           source_file == dir.frontmatter_files[dir.i]
           r == GenerateFile(source_file, SOURCE_DIR, OUTPUT_DIR, L)
           last == dir.i = Len(dir.frontmatter_files)
       IN  /\ dir' = [dir EXCEPT
                         !.all_output_files = @ \o r.paths,
                         !.errors = RecordFailure(@, r.err),
                         !.attempted = Append(@, source_file.path),
                         !.targets = @ \o [j \in 1..Len(r.targets) |->
                                              [src |-> source_file.path,
                                               i |-> r.targets[j]]],
                         !.i = IF last THEN 1 ELSE @ + 1,
                         !.pc = IF last THEN AfterFrontmatter(dir.passthrough_files)
                                ELSE @]
           /\ written' = written \cup Logged(r.writes)
           /\ log' = log \cup Recorded("generate_directory", r.writes)
           /\ disk' = DiskAfter(disk, r)
           /\ RegistryAfter(r, L)
    /\ UNCHANGED <<tree, ignore_patterns, watch, invocation, watcher, threads>>

ProcessPassthroughFile ==
    /\ dir.pc = "passthrough"
    /\ LET source_file == dir.passthrough_files[dir.i]
           r == CopyFilePassthrough(source_file, SOURCE_DIR, OUTPUT_DIR)
           last == dir.i = Len(dir.passthrough_files)
       IN  /\ dir' = [dir EXCEPT
                         !.all_output_files = @ \o r.paths,
                         !.errors = RecordFailure(@, r.err),
                         !.attempted = Append(@, source_file.path),
                         !.i = IF last THEN 1 ELSE @ + 1,
                         !.pc = IF last THEN "finish" ELSE @]
           /\ written' = written \cup Logged(r.writes)
           /\ log' = log \cup Recorded("generate_directory", r.writes)
           /\ disk' = DiskAfter(disk, r)
    /\ UNCHANGED <<registryVars, tree, ignore_patterns, watch, invocation, watcher, threads>>

\* lines 411-429: raise the aggregate GenerationError, or return
GenerateDirectoryEnd ==
    /\ dir.pc = "finish"
    /\ dir' = IF dir.errors # << >>
              THEN [dir EXCEPT !.pc = "done", !.raised = @ + 1,
                               !.error_msg = ErrorMsg(dir.errors)]
              ELSE [dir EXCEPT !.pc = "done", !.returned = TRUE,
                               !.result = dir.all_output_files]
    /\ UNCHANGED <<registryVars, tree, ignore_patterns, watch, written, log, disk, invocation, watcher, threads>>

(***************************************************************************)
(* watcher.GriffonnerEventHandler.                                         *)
(***************************************************************************)
\* a handler that matches the path as the platform spells it
ShouldIgnoreUnnormalised(file_path, source_dir, patterns) ==
    IF patterns = << >> THEN FALSE
    ELSE IF ~IsRelativeTo(file_path, source_dir) THEN TRUE
    ELSE \E i \in 1..Len(patterns) :
             Fnmatch(PathStr(RelativeTo(file_path, source_dir)), patterns[i])

ShouldIgnore(file_path, source_dir, patterns) ==
    IF patterns = << >> THEN FALSE
    ELSE IF ~IsRelativeTo(file_path, source_dir) THEN TRUE
    ELSE LET relative_str == Normalise(PathStr(RelativeTo(file_path, source_dir)))
         IN  \E i \in 1..Len(patterns) : Fnmatch(relative_str, patterns[i])

\* the file an event's path names; a path with no file cannot be read
FileAt(path) ==
    IF \E i \in 1..Len(tree) : tree[i].path = path
    THEN tree[CHOOSE i \in 1..Len(tree) : tree[i].path = path]
    ELSE File(path, FALSE, << >>, BadDoc, FALSE)

\* what handling one event did: the branch taken, which of generate_file
\* and copy_file_passthrough was called, whether a failure was echoed to
\* the operator (line 200), whether an exception left the handler, and
\* the outcome r of the call
Result(outcome, invoked, reported, escaped, r) ==
    [outcome |-> outcome, invoked |-> invoked, reported |-> reported,
     escaped |-> escaped, writes |-> r.writes, loads |-> r.loads,
     dirs |-> r.dirs]

Nothing == Outcome(<< >>, << >>, << >>, Done, FALSE, {})

\* a handler with no `except Exception` clause
RegenerateFileUncaught(f, source_dir, output_dir, L) ==
    LET c == CategoriseFiles(<<f>>)
        g == GenerateFile(f, source_dir, output_dir, L)
        p == CopyFilePassthrough(f, source_dir, output_dir)
    IN  IF ~IsRelativeTo(f.path, source_dir)
        THEN Result("value_error", "", FALSE, FALSE, Nothing)
        ELSE IF ~f.readable THEN Result("skipped", "", FALSE, FALSE, Nothing)
        ELSE IF c.frontmatter_files # << >>
        THEN Result(IF ~g.err.raised THEN "regenerated"
                    ELSE IF g.err.type = "ValueError" THEN "value_error"
                    ELSE "failed",
                    "generate_file", FALSE,
                    g.err.raised /\ g.err.type # "ValueError", g)
        ELSE Result(IF p.err.raised THEN "failed" ELSE "copied",
                    "copy_file_passthrough", FALSE, p.err.raised, p)

\* a handler that does not try to read the file first
RegenerateFileUnread(f, source_dir, output_dir, L) ==
    LET c == CategoriseFiles(<<f>>)
        g == GenerateFile(f, source_dir, output_dir, L)
        p == CopyFilePassthrough(f, source_dir, output_dir)
    IN  IF ~IsRelativeTo(f.path, source_dir)
        THEN Result("value_error", "", FALSE, FALSE, Nothing)
        ELSE IF c.frontmatter_files # << >>
        THEN Result(IF ~g.err.raised THEN "regenerated"
                    ELSE IF g.err.type = "ValueError" THEN "value_error"
                    ELSE "failed",
                    "generate_file", g.err.raised /\ g.err.type # "ValueError",
                    FALSE, g)
        ELSE Result(IF p.err.raised THEN "failed" ELSE "copied",
                    "copy_file_passthrough", p.err.raised, FALSE, p)

\* a handler that copies every readable file, a document too
RegenerateFileCopying(f, source_dir, output_dir, L) ==
    LET p == CopyFilePassthrough(f, source_dir, output_dir)
    IN  IF ~IsRelativeTo(f.path, source_dir)
        THEN Result("value_error", "", FALSE, FALSE, Nothing)
        ELSE IF ~f.readable THEN Result("skipped", "", FALSE, FALSE, Nothing)
        ELSE Result(IF p.err.raised THEN "failed" ELSE "copied",
                    "copy_file_passthrough", p.err.raised, FALSE, p)

\* lines 142-200: a ValueError (the path is outside the source root, or
\* any other ValueError raised on the way) is logged and dropped; any
\* other exception is logged and echoed; nothing leaves the handler
RegenerateFile(f, source_dir, output_dir, L) ==
    LET c == CategoriseFiles(<<f>>)
        g == GenerateFile(f, source_dir, output_dir, L)
        p == CopyFilePassthrough(f, source_dir, output_dir)
    IN  IF ~IsRelativeTo(f.path, source_dir)
        THEN Result("value_error", "", FALSE, FALSE, Nothing)
        ELSE IF ~f.readable THEN Result("skipped", "", FALSE, FALSE, Nothing)
        ELSE IF c.frontmatter_files # << >>
        THEN Result(IF ~g.err.raised THEN "regenerated"
                    ELSE IF g.err.type = "ValueError" THEN "value_error"
                    ELSE "failed",
                    "generate_file", g.err.raised /\ g.err.type # "ValueError",
                    FALSE, g)
        ELSE IF c.passthrough_files # << >>
        THEN Result(IF p.err.raised THEN "failed" ELSE "copied",
                    "copy_file_passthrough", p.err.raised, FALSE, p)
        ELSE Result("uncategorised", "", FALSE, FALSE, Nothing)

\* on_modified and on_created have the same body
OnEvent(e, L) ==
    IF e.is_directory THEN Result("directory", "", FALSE, FALSE, Nothing)
    ELSE IF ShouldIgnore(e.src_path, SOURCE_DIR, ignore_patterns)
    THEN Result("ignored", "", FALSE, FALSE, Nothing)
    ELSE RegenerateFile(FileAt(e.src_path), SOURCE_DIR, OUTPUT_DIR, L)

Event(src_path, is_directory) == [src_path |-> src_path, is_directory |-> is_directory]

\* the events the observer delivers: for the files of the tree, for a file
\* outside the source root, and for a directory
Events ==
    {Event(tree[i].path, FALSE) : i \in 1..Len(tree)}
        \cup {Event(<< <<"t">>, <<"a">> >>, FALSE), Event(<< <<"s">>, <<"b">> >>, TRUE)}

\* the handler's effect for event e
(***************************************************************************)
(* watcher.DocumentationWatcher: watch() calls start(), sleeps in a loop   *)
(* until KeyboardInterrupt and then calls stop().  `pc` is where watch()   *)
(* is, `exit` how it ended, `observer` the state of the observer thread,   *)
(* `calls` the calls made on the observer and `interrupted` whether an     *)
(* interrupt has been requested.                                           *)
(***************************************************************************)
Watcher(pc, exit, observer, calls, interrupted) ==
    [pc |-> pc, exit |-> exit, observer |-> observer, calls |-> calls,
     interrupted |-> interrupted]

\* no watcher, or one whose watch() has not been called
NoWatcher == Watcher("idle", "", "idle", << >>, FALSE)

\* a watcher in its loop
Watching == Watcher("loop", "", "running", <<"start">>, FALSE)

\* the output tree once start() has made the output directory (line 270)
StartedDisk == [dirs |-> Dirs(OUTPUT_DIR), files |-> {}]

\* the observer thread calls the handler from observer.start() until it
\* ends; observer.stop() asks it to end and observer.join() waits for that
ObserverAlive == watcher.observer \in {"running", "stopping"}

Handle(op, e, L) ==
    LET r == OnEvent(e, L)
    IN  /\ watch' = [op |-> op, src_path |-> e.src_path,
                     is_directory |-> e.is_directory, outcome |-> r.outcome,
                     invoked |-> r.invoked, reported |-> r.reported,
                     returned |-> ~r.escaped, wrote |-> Logged(r.writes)]
        /\ written' = written \cup Logged(r.writes)
        /\ log' = log \cup Recorded("watch", r.writes)
        /\ disk' = DiskAfter(disk, r)
        /\ RegistryAfter(r, L)

OnModified ==
    /\ dir.pc = "idle"
    /\ watch.returned
    /\ ObserverAlive
    /\ LET L == Loaded
       IN  \E e \in Events : Handle("on_modified", e, L)
    /\ UNCHANGED <<tree, ignore_patterns, dir, invocation, watcher, threads>>

OnCreated ==
    /\ dir.pc = "idle"
    /\ watch.returned
    /\ ObserverAlive
    /\ LET L == Loaded
       IN  \E e \in Events : Handle("on_created", e, L)
    /\ UNCHANGED <<tree, ignore_patterns, dir, invocation, watcher, threads>>

(***************************************************************************)
(* watcher.DocumentationWatcher.watch, step by step.                       *)
(***************************************************************************)
\* lines 291-294 and 253-270: watch() calls start(), which raises if the
\* source directory is missing and else makes the output directory and
\* schedules the handler
Watch ==
    /\ dir.pc = "idle"
    /\ watcher.pc = "idle"
    /\ \E exists \in BOOLEAN :
           IF exists
           THEN /\ watcher' = [watcher EXCEPT !.pc = "start"]
                /\ disk' = [disk EXCEPT !.dirs = @ \cup Dirs(OUTPUT_DIR)]
           ELSE /\ watcher' = [watcher EXCEPT !.pc = "done", !.exit = "raised"]
                /\ disk' = disk
    /\ UNCHANGED <<registryVars, tree, ignore_patterns, dir, watch, written, log, invocation, threads>>

\* line 276: self.observer.start()
ObserverStart ==
    /\ watcher.pc = "start"
    /\ watcher' = [watcher EXCEPT !.pc = "started", !.observer = "running",
                                  !.calls = Append(@, "start")]
    /\ UNCHANGED <<registryVars, tree, ignore_patterns, dir, watch, written, log, disk, invocation, threads>>

\* lines 278-281 and 296-298: start() returns and watch() enters its try
EnterLoop ==
    /\ watcher.pc = "started"
    /\ watcher' = [watcher EXCEPT !.pc = "loop"]
    /\ UNCHANGED <<registryVars, tree, ignore_patterns, dir, watch, written, log, disk, invocation, threads>>

\* a watch() whose handler of the interrupt only returns
KeyboardInterruptPassed(w) ==
    IF w.pc = "loop"
    THEN [w EXCEPT !.pc = "done", !.exit = "returned", !.interrupted = TRUE]
    ELSE [w EXCEPT !.pc = "done", !.exit = "raised", !.interrupted = TRUE]

\* KeyboardInterrupt in the main thread: the except clause of line 299
\* catches it in the loop; in start(), before the try, and in the except
\* clause itself it leaves watch() as an exception
KeyboardInterrupt(w) ==
    IF w.pc = "loop"
    THEN [w EXCEPT !.pc = "stop", !.interrupted = TRUE]
    ELSE [w EXCEPT !.pc = "done", !.exit = "raised", !.interrupted = TRUE]

\* the external interrupt, at any point of watch()
Interrupt ==
    /\ watcher.pc \in {"start", "started", "loop", "stop", "join"}
    /\ watcher' = KeyboardInterrupt(watcher)
    /\ UNCHANGED <<registryVars, tree, ignore_patterns, dir, watch, written, log, disk, invocation, threads>>

\* lines 299-302 and 283-286: stop() calls self.observer.stop()
ObserverStop ==
    /\ watcher.pc = "stop"
    /\ watcher' = [watcher EXCEPT !.pc = "join", !.observer = "stopping",
                                  !.calls = Append(@, "stop")]
    /\ UNCHANGED <<registryVars, tree, ignore_patterns, dir, watch, written, log, disk, invocation, threads>>

\* lines 287-289 and 303-304: self.observer.join() returns when the
\* observer thread has ended; stop() and then watch() return
ObserverJoin ==
    /\ watcher.pc = "join"
    /\ watcher' = [watcher EXCEPT !.pc = "done", !.exit = "returned",
                                  !.observer = "joined",
                                  !.calls = Append(@, "join")]
    /\ UNCHANGED <<registryVars, tree, ignore_patterns, dir, watch, written, log, disk, invocation, threads>>

(***************************************************************************)
(* Direct calls: generate_file on a single source file (the command line   *)
(* gives the file's directory, or another one, as source root) and         *)
(* copy_file_passthrough.                                                  *)
(***************************************************************************)
SourceRoots == {SOURCE_DIR, << <<"s">>, <<"b">> >>}

\* a source file given to generate_file that does not exist
MissingFile == FileAt(<< <<"s">>, <<"z">> >>)

GenerateFileCall ==
    /\ dir.pc = "idle"
    /\ watch = NoEvent
    /\ LET L == Loaded
       IN  \E f \in Range(tree) \cup {MissingFile}, source_dir \in SourceRoots :
               LET r == GenerateFile(f, source_dir, OUTPUT_DIR, L)
               IN  /\ invocation' = Invocation("generate_file", f, source_dir, r)
                   /\ written' = written \cup Logged(r.writes)
                   /\ log' = log \cup Recorded("generate_file", r.writes)
                   /\ disk' = DiskAfter(disk, r)
                   /\ RegistryAfter(r, L)
    /\ UNCHANGED <<tree, ignore_patterns, dir, watch, watcher, threads>>

CopyFilePassthroughCall ==
    /\ dir.pc = "idle"
    /\ watch = NoEvent
    /\ \E i \in 1..Len(tree), source_dir \in SourceRoots :
           LET r == CopyFilePassthrough(tree[i], source_dir, OUTPUT_DIR)
           IN  /\ invocation' = Invocation("copy_file_passthrough", tree[i],
                                           source_dir, r)
               /\ written' = written \cup Logged(r.writes)
               /\ log' = log \cup Recorded("copy_file_passthrough", r.writes)
               /\ disk' = DiskAfter(disk, r)
    /\ UNCHANGED <<registryVars, tree, ignore_patterns, dir, watch, watcher, threads>>

\* categorise_files(files) called on its own
CategoriseFilesCall ==
    /\ dir.pc = "idle"
    /\ LET c == CategoriseFiles(tree)
       IN  dir' = [dir EXCEPT !.pc = "categorised", !.all_files = tree,
                              !.frontmatter_files = c.frontmatter_files,
                              !.passthrough_files = c.passthrough_files]
    /\ UNCHANGED <<registryVars, tree, ignore_patterns, watch, written, log, disk, invocation, watcher, threads>>

(***************************************************************************)
(* Two callers of one registry on threads of their own (section 5 of the   *)
(* design: handlers that race on the first use of the registry).           *)
(* load_plugins holds no lock: a thread can be preempted between reading   *)
(* self._loaded and setting it, and between the stages of the discovery.   *)
(* Each stage is one step here; the maps are the shared self._processors,  *)
(* self._filters and self._bundles.                                        *)
(***************************************************************************)
ThreadIds == {"t1", "t2"}

\* where a caller is, whether it ran the discovery, and the maps it got
Thread(pc, discovered, value) == [pc |-> pc, discovered |-> discovered, value |-> value]

Maps(procs, filts, bunds) == [processors |-> procs, filters |-> filts, bundles |-> bunds]

NoMaps == Maps(<< >>, << >>, << >>)

NoThreads == [t \in ThreadIds |-> Thread("idle", FALSE, NoMaps)]

At23(t, pc) == [threads EXCEPT ![t].pc = pc]

(***************************************************************************)
(* The registry: PluginManager.__init__ leaves the maps empty and the flag *)
(* unset; the installed entry points and the configured modules are any.   *)
(***************************************************************************)
\* no generation or watch session is running
NoSession ==
    /\ tree = << >>
    /\ ignore_patterns = << >>
    /\ dir = Idle
    /\ watch = NoEvent
    /\ written = {}
    /\ log = {}
    /\ disk = EmptyDisk
    /\ invocation = NoInvocation
    /\ watcher = NoWatcher
    /\ threads = NoThreads

InitManager ==
    /\ processors = << >>
    /\ filters = << >>
    /\ bundles = << >>
    /\ loaded = FALSE
    /\ context = FreshContext
    /\ call = NoCall

InitRegistry ==
    /\ all_entry_points \in DistinctSeqs(RegistryEntryPoints, MaxEntryPoints)
    /\ local_plugin_modules \in DistinctSeqs(ModuleNames, MaxModules)
    /\ InitManager
    /\ NoSession

NextRegistry ==
    \/ LoadPlugins
    \/ GetProcessors
    \/ GetFilters
    \/ GetBundles
    \/ ListPlugins
    \/ GetBundleInfo
    \/ ProcessGriffeObject(FewSelections)

SpecRegistry == InitRegistry /\ [][NextRegistry]_vars

\* the accessors and a caller that changes what they return
NextAccess ==
    \/ GetProcessors
    \/ GetFilters
    \/ GetBundles
    \/ MutateReturned

SpecAccess == InitRegistry /\ [][NextAccess]_vars

(***************************************************************************)
(* The pipeline: process_griffe_object on a registry whose installed entry *)
(* points all load.                                                        *)
(***************************************************************************)
InitProcess ==
    /\ all_entry_points \in DistinctSeqs(ProcessEntryPoints, MaxEntryPoints)
    /\ local_plugin_modules \in DistinctSeqs({M_m, M_n}, MaxModules)
    /\ InitManager
    /\ NoSession

NextProcess ==
    \/ LoadPlugins
    \/ ProcessGriffeObject(AllSelections)

SpecProcess == InitProcess /\ [][NextProcess]_vars

(***************************************************************************)
(* Sessions of the orchestrator.  A source tree is a list of files in the  *)
(* order rglob yields them (any order); the command line runs either one   *)
(* directory generation or one watch, each with its own registry, whose    *)
(* installed entry points load or do not.                                  *)
(***************************************************************************)
TREE_PATHS ==
    << << <<"s">>, <<"c">> >>,
       << <<"s">>, <<"b", "\\", "a">> >>,
       << <<"s">>, <<"b">>, <<"a">> >>,
       << <<"s">>, <<"a">> >> >>

\* the trees of at most MaxFiles files, each of one of the kinds
Trees(kinds) ==
    {[i \in 1..Len(ks) |-> At(TREE_PATHS[i], ks[i])] : ks \in SeqsUpTo(kinds, MaxFiles)}

SessionEntryPoints ==
    {<< >>, <<EntryPoint(G_FILTERS, <<"g">>, Filter("ep_g"), FALSE)>>}

InitSession ==
    /\ all_entry_points \in SessionEntryPoints
    /\ local_plugin_modules = << >>
    /\ InitManager
    /\ dir = Idle
    /\ watch = NoEvent
    /\ written = {}
    /\ log = {}
    /\ invocation = NoInvocation

InitDirectory ==
    /\ InitSession
    /\ disk = EmptyDisk
    /\ watcher = NoWatcher
    /\ threads = NoThreads
    /\ tree \in Trees(FileKinds)
    /\ ignore_patterns \in {<< >>, << <<"?">> >>}

NextDirectory ==
    \/ GenerateDirectoryBegin
    \/ ProcessFrontmatterFile
    \/ ProcessPassthroughFile
    \/ GenerateDirectoryEnd

SpecDirectory == InitDirectory /\ [][NextDirectory]_vars

\* the ignore globs of a session
Globs == {<<"b", "/", "*">>, <<"?">>, <<"*", "a">>, <<"c">>}

\* the kinds of file of the watched trees
WatchKinds ==
    {k \in FileKinds :
        /\ k.copyOK
        /\ k.doc.parseOK => k.doc.output = <<Target(FILENAMES[1], TRUE)>>}

InitWatch ==
    /\ InitSession
    /\ disk = StartedDisk
    /\ watcher = Watching
    /\ threads = NoThreads
    /\ tree \in Trees(WatchKinds)
    /\ ignore_patterns \in SeqsUpTo(Globs, MaxPatterns)

NextWatch ==
    \/ NextDirectory
    \/ OnModified
    \/ OnCreated

SpecWatch == InitWatch /\ [][NextWatch]_vars

\* a watch over a tree of such files: the handler's events only
\* the kinds of file an event can be for: one that cannot be read, a
\* plain file that is copied or whose copy fails, a document that does
\* not parse, and a document whose only target generates or fails
EventKinds ==
    {File(<< >>, FALSE, PLAIN, BadDoc, TRUE),
     File(<< >>, TRUE, PLAIN, BadDoc, TRUE),
     File(<< >>, TRUE, PLAIN, BadDoc, FALSE),
     File(<< >>, TRUE, DELIMITER \o PLAIN, BadDoc, TRUE),
     File(<< >>, TRUE, DELIMITER \o PLAIN, Doc(TRUE, <<Target(FILENAMES[1], TRUE)>>), TRUE),
     File(<< >>, TRUE, DELIMITER \o PLAIN, Doc(TRUE, <<Target(FILENAMES[1], FALSE)>>), TRUE)}

InitEvents ==
    /\ InitSession
    /\ disk = StartedDisk
    /\ watcher = Watching
    /\ threads = NoThreads
    /\ tree \in Trees(EventKinds)
    /\ ignore_patterns \in {<< >>, << <<"?">> >>}

NextEvents ==
    \/ OnModified
    \/ OnCreated

SpecEvents == InitEvents /\ [][NextEvents]_vars

\* the kinds of file under a watcher from construction to return
LifecycleKinds ==
    {File(<< >>, TRUE, PLAIN, BadDoc, TRUE),
     File(<< >>, TRUE, DELIMITER \o PLAIN, BadDoc, TRUE),
     File(<< >>, TRUE, DELIMITER \o PLAIN,
          Doc(TRUE, <<Target(FILENAMES[1], TRUE)>>), TRUE)}

\* DocumentationWatcher.__init__ and then watch()
InitLifecycle ==
    /\ InitSession
    /\ disk = EmptyDisk
    /\ watcher = NoWatcher
    /\ threads = NoThreads
    /\ tree \in Trees(LifecycleKinds)
    /\ ignore_patterns = << >>

NextLifecycle ==
    \/ Watch
    \/ ObserverStart
    \/ EnterLoop
    \/ Interrupt
    \/ ObserverStop
    \/ ObserverJoin
    \/ OnModified
    \/ OnCreated

SpecLifecycle == InitLifecycle /\ [][NextLifecycle]_vars

\* the files of a direct call
FILE_PATHS == { << <<"s">>, <<"b">>, <<"a">> >>, << <<"s">>, <<"c">> >> }

\* the steps of a target that may fail, and none
Steps == {"", "merge", "load", "render", "write"}

\* the kinds of file of a direct call
CallKinds ==
    {File(<< >>, FALSE, PLAIN, BadDoc, TRUE),
     File(<< >>, TRUE, PLAIN, BadDoc, TRUE),
     File(<< >>, TRUE, PLAIN, BadDoc, FALSE),
     File(<< >>, TRUE, DELIMITER \o PLAIN, BadDoc, TRUE)}
    \cup {File(<< >>, TRUE, DELIMITER \o PLAIN,
               Doc(TRUE, [i \in 1..Len(st) |-> TargetAt(FILENAMES[i], st[i])]), TRUE) :
             st \in SeqsUpTo(Steps, MaxTargets)}

\* the installed entry points of a direct call: none, a processor, a
\* processor that raises, a filter that does not load
FileEntryPoints ==
    {<< >>,
     <<EntryPoint(G_PROCESSORS, <<"p">>, P_low, TRUE)>>,
     <<EntryPoint(G_PROCESSORS, <<"p">>, P_bad, TRUE)>>,
     <<EntryPoint(G_FILTERS, <<"g">>, Filter("ep_g"), FALSE)>>}

InitFile ==
    /\ all_entry_points \in FileEntryPoints
    /\ local_plugin_modules = << >>
    /\ InitManager
    /\ dir = Idle
    /\ watch = NoEvent
    /\ written = {}
    /\ log = {}
    /\ disk = EmptyDisk
    /\ invocation = NoInvocation
    /\ watcher = NoWatcher
    /\ threads = NoThreads
    /\ tree \in {<<At(path, k)>> : path \in FILE_PATHS, k \in CallKinds}
    /\ ignore_patterns = << >>

NextFile ==
    \/ GenerateFileCall
    \/ CopyFilePassthroughCall

SpecFile == InitFile /\ [][NextFile]_vars

\* the kinds of file categorise_files may be given
CategoriseKinds ==
    {File(<< >>, readable, content, BadDoc, TRUE) :
        readable \in BOOLEAN,
        content \in {DELIMITER \o PLAIN, <<"-", "-", "-">>, PLAIN, << >>}}

InitCategorise ==
    /\ all_entry_points = << >>
    /\ local_plugin_modules = << >>
    /\ InitManager
    /\ dir = Idle
    /\ watch = NoEvent
    /\ written = {}
    /\ log = {}
    /\ disk = EmptyDisk
    /\ invocation = NoInvocation
    /\ watcher = NoWatcher
    /\ threads = NoThreads
    /\ tree \in Trees(CategoriseKinds)
    /\ ignore_patterns = << >>

NextCategorise == CategoriseFilesCall

SpecCategorise == InitCategorise /\ [][NextCategorise]_vars

(***************************************************************************)
(* frontmatter.parse_frontmatter_file.  A document is given by what the    *)
(* steps of the parser test: how the text starts, whether a closing        *)
(* delimiter follows the block, and what yaml.safe_load makes of the       *)
(* block.  A mapping is given by its `template` and `output` values.       *)
(***************************************************************************)
Document(head, closed, data) == [head |-> head, closed |-> closed, data |-> data]

Mapping(template, output) == [type |-> "dict", template |-> template, output |-> output]

\* what is not a mapping: null, a scalar, a list, and a block that is not YAML
NotMappings == {[type |-> t] : t \in {"invalid", "NoneType", "str", "list"}}

\* the values of `template`: absent, not a string, and three file names
Templates == {"absent", "int", "t.jinja2", "t.j2", "t.txt"}

\* an item of `output`: a filename and a griffe_target, or one that lacks a field
OutputItem(ok) == [filename |-> <<"1">>, griffe_target |-> IF ok THEN "m" ELSE "absent"]

\* the values of `output`: absent, a scalar, and the lists of items
Outputs ==
    {[type |-> t, items |-> << >>] : t \in {"absent", "str"}}
    \cup {[type |-> "list", items |-> items] :
             items \in SeqsUpTo({OutputItem(TRUE), OutputItem(FALSE)}, MaxTargets)}

\* how a text can start: not at all, with other text, with the delimiter line
Heads == {"", "text", "---"}

Documents ==
    {Document(head, closed, data) :
        head \in Heads, closed \in BOOLEAN,
        data \in NotMappings \cup {Mapping(t, o) : t \in Templates, o \in Outputs}}

\* lines 39-45: validate_template
ValidateTemplate(v) == v \in {"t.jinja2", "t.j2"}

\* lines 30-45 and 151: FrontmatterConfig.model_validate(frontmatter_data):
\* `template` is a required string with a recognized extension, `output` a
\* required list (of any length) of items that have both fields
ModelValidate(data) ==
    /\ data.template \notin {"absent", "int"}
    /\ ValidateTemplate(data.template)
    /\ data.output.type = "list"
    /\ \A i \in 1..Len(data.output.items) :
           data.output.items[i].griffe_target # "absent"

Parsed(ok, category, frontmatter) ==
    [ok |-> ok, category |-> category, frontmatter |-> frontmatter]

NoFrontmatter == [template |-> "", output |-> << >>]

\* lines 79-177: the pattern, the YAML, the mapping, the model; each
\* failure is a ValueError with its own message
ParseFrontmatterFile(d) ==
    IF ~(d.head = "---" /\ d.closed)
    THEN Parsed(FALSE,
                IF d.head = "" THEN "empty"
                ELSE IF d.head = "---" THEN "invalid format" ELSE "no frontmatter",
                NoFrontmatter)
    ELSE IF d.data.type = "invalid"
    THEN Parsed(FALSE, "invalid YAML", NoFrontmatter)
    ELSE IF d.data.type # "dict"
    THEN Parsed(FALSE, "not a mapping", NoFrontmatter)
    ELSE IF ~ModelValidate(d.data)
    THEN Parsed(FALSE, "invalid configuration", NoFrontmatter)
    ELSE Parsed(TRUE, "", [template |-> d.data.template, output |-> d.data.output.items])

\* parse_frontmatter_file on the document of the session
ParseFrontmatterFileCall ==
    /\ dir.pc = "idle"
    /\ watch = NoEvent
    /\ \E i \in 1..Len(tree) :
           LET r == ParseFrontmatterFile(tree[i])
           IN  invocation' =
                   [op |-> "parse_frontmatter_file", f |-> tree[i],
                    returned |-> r.ok,
                    err |-> IF r.ok THEN Done
                            ELSE Fail("ValueError", << >>, << >>, r.category),
                    frontmatter |-> r.frontmatter]
    /\ UNCHANGED <<registryVars, tree, ignore_patterns, dir, watch, written, log, disk, watcher, threads>>

InitParse ==
    /\ all_entry_points = << >>
    /\ local_plugin_modules = << >>
    /\ InitManager
    /\ dir = Idle
    /\ watch = NoEvent
    /\ written = {}
    /\ log = {}
    /\ disk = EmptyDisk
    /\ invocation = NoInvocation
    /\ watcher = NoWatcher
    /\ threads = NoThreads
    /\ tree \in {<<d>> : d \in Documents}
    /\ ignore_patterns = << >>

NextParse == ParseFrontmatterFileCall

SpecParse == InitParse /\ [][NextParse]_vars

(***************************************************************************)
(* The steps of two racing callers of an accessor.                         *)
(***************************************************************************)
\* line 47: `if self._loaded: return`, or on to the discovery
LoadPluginsCheck ==
    \E t \in ThreadIds :
        /\ threads[t].pc = "idle"
        /\ threads' = IF loaded
                      THEN At23(t, "return")
                      ELSE [threads EXCEPT ![t] = Thread("processors", TRUE, NoMaps)]
        /\ UNCHANGED <<registryVars, tree, ignore_patterns, dir, watch, written, log, disk, invocation, watcher>>

\* line 55: self._load_entry_points("griffonner.processors", self._processors)
LoadProcessorEntryPoints ==
    \E t \in ThreadIds :
        /\ threads[t].pc = "processors"
        /\ LET r == LoadEntryPoints(all_entry_points, G_PROCESSORS, processors)
           IN  /\ processors' = r.dict
               /\ threads' = At23(t, IF r.err.raised THEN "raised" ELSE "filters")
        /\ UNCHANGED <<all_entry_points, local_plugin_modules, filters, bundles, loaded, context, call>>
        /\ UNCHANGED sessionVarsButThreads

\* line 63: self._load_entry_points("griffonner.filters", self._filters)
LoadFilterEntryPoints ==
    \E t \in ThreadIds :
        /\ threads[t].pc = "filters"
        /\ LET r == LoadEntryPoints(all_entry_points, G_FILTERS, filters)
           IN  /\ filters' = r.dict
               /\ threads' = At23(t, IF r.err.raised THEN "raised" ELSE "local")
        /\ UNCHANGED <<all_entry_points, local_plugin_modules, processors, bundles, loaded, context, call>>
        /\ UNCHANGED sessionVarsButThreads

\* line 69: self._load_local_plugin_modules()
LoadLocalModules ==
    \E t \in ThreadIds :
        /\ threads[t].pc = "local"
        /\ LET loc == LoadLocalPluginModules(local_plugin_modules, 1, processors, filters)
           IN  /\ processors' = loc.processors
               /\ filters' = loc.filters
        /\ threads' = At23(t, "bundles")
        /\ UNCHANGED <<all_entry_points, local_plugin_modules, bundles, loaded, context, call>>
        /\ UNCHANGED sessionVarsButThreads

\* lines 75-102: the bundles are loaded and processed, then self._loaded = True
LoadBundles ==
    \E t \in ThreadIds :
        /\ threads[t].pc = "bundles"
        /\ LET r == LoadEntryPoints(all_entry_points, G_BUNDLES, << >>)
               b == ProcessBundles(r.dict, 1, Maps(processors, filters, bundles))
           IN  IF r.err.raised
               THEN /\ threads' = At23(t, "raised")
                    /\ UNCHANGED <<processors, filters, bundles, loaded>>
               ELSE /\ threads' = At23(t, "return")
                    /\ processors' = b.processors
                    /\ filters' = b.filters
                    /\ bundles' = b.bundles
                    /\ loaded' = TRUE
        /\ UNCHANGED <<all_entry_points, local_plugin_modules, context, call>>
        /\ UNCHANGED sessionVarsButThreads

\* lines 161, 170, 179: the accessor returns copies of the maps as they are
AccessorReturn ==
    \E t \in ThreadIds :
        /\ threads[t].pc = "return"
        /\ threads' = [threads EXCEPT ![t].pc = "done",
                                      ![t].value = Maps(processors, filters, bundles)]
        /\ UNCHANGED <<registryVars, tree, ignore_patterns, dir, watch, written, log, disk, invocation, watcher>>

NextRace ==
    \/ LoadPluginsCheck
    \/ LoadProcessorEntryPoints
    \/ LoadFilterEntryPoints
    \/ LoadLocalModules
    \/ LoadBundles
    \/ AccessorReturn

SpecRace == InitRegistry /\ [][NextRace]_vars

(***************************************************************************)
(* config.merge_griffe_config.  A configuration value is a scalar or a     *)
(* dict; a dict is the sequence of its items in insertion order.           *)
(***************************************************************************)
Scalar(val) == [type |-> "str", val |-> val, items |-> << >>]

DictValue(items) == [type |-> "dict", val |-> "", items |-> items]

Item(k, v) == [k |-> k, v |-> v]

Scalars == {Scalar("x"), Scalar("y")}

\* the dicts with keys among `keys` (in this order) and values among `values`
DictsOver(keys, values) ==
    IF Len(keys) = 1
    THEN {<< >>} \cup {<<Item(keys[1], v)>> : v \in values}
    ELSE {<< >>} \cup {<<Item(keys[1], v)>> : v \in values}
             \cup {<<Item(keys[2], v)>> : v \in values}
             \cup {<<Item(keys[1], v), Item(keys[2], w)>> : v \in values, w \in values}

\* dicts nested three deep: the options of a loader, of one of its
\* extensions, and the configuration itself
InnerConfigs == DictsOver(<<"a">>, Scalars)

MiddleConfigs == DictsOver(<<"a">>, Scalars \cup {DictValue(m) : m \in InnerConfigs})

GriffeConfigs ==
    DictsOver(<<"a", "b">>, Scalars \cup {DictValue(m) : m \in MiddleConfigs})

\* a merge that never recurses: the overriding value replaces the base's
NeverBothDicts(result, key, value) == FALSE

\* line 63: key in result and isinstance(result[key], dict) and isinstance(value, dict)
BothDicts(result, key, value) ==
    DictHas(result, key) /\ DictGet(result, key).type = "dict" /\ value.type = "dict"

\* lines 62-66: the loop over override.items(), writing into `result`
RECURSIVE DeepMergeFrom(_, _, _)
DeepMergeFrom(result, override, i) ==
    IF i > Len(override) THEN result
    ELSE LET key == override[i].k
             value == override[i].v
         IN  DeepMergeFrom(
                 IF BothDicts(result, key, value)
                 THEN DictSet(result, key,
                              DictValue(DeepMergeFrom(DictGet(result, key).items,
                                                      value.items, 1)))
                 ELSE DictSet(result, key, value),
                 override, i + 1)

\* line 60: base.copy() is a dict of its own with the items of `base`
ShallowCopy(base) == [shared |-> FALSE, items |-> base]

\* the writes of the loop go to `result`; they reach `base` only if `result`
\* is the same object.  `override` is read, never written.
DeepMerge(base, override) ==
    LET result == ShallowCopy(base)
        merged == DeepMergeFrom(result.items, override, 1)
    IN  [result |-> merged,
         base |-> IF result.shared THEN merged ELSE base,
         override |-> override]

MergeGriffeConfig(default_griffe_config, frontmatter_griffe_config) ==
    DeepMerge(default_griffe_config, frontmatter_griffe_config)

MergeGriffeConfigCall ==
    /\ invocation.op = ""
    /\ \E default \in GriffeConfigs, document \in GriffeConfigs :
           LET r == MergeGriffeConfig(default, document)
           IN  invocation' = [op |-> "merge_griffe_config", returned |-> TRUE,
                              default |-> default, document |-> document,
                              result |-> r.result, default_after |-> r.base,
                              document_after |-> r.override]
    /\ UNCHANGED <<registryVars, tree, ignore_patterns, dir, watch, written, log, disk, watcher, threads>>

InitMerge ==
    /\ all_entry_points = << >>
    /\ local_plugin_modules = << >>
    /\ InitManager
    /\ NoSession

NextMerge == MergeGriffeConfigCall

SpecMerge == InitMerge /\ [][NextMerge]_vars

(***************************************************************************)
(* core.generate_file, lines 270-295: the processors of one target are     *)
(* chosen by the document's `processors` block and then run.               *)
(***************************************************************************)
\* ProcessorConfig: `configured` tells whether the document has the block
ProcessorConfig(configured, enabled, disabled) ==
    [configured |-> configured, enabled |-> enabled, disabled |-> disabled]

\* the names a document lists: a bare name, a qualified one, an entry point
ListedNames == {<<"p">>, <<"n", ".", "p">>, <<"q">>}

ProcessorConfigs ==
    {ProcessorConfig(FALSE, << >>, << >>)}
        \cup {ProcessorConfig(TRUE, enabled, disabled) :
                 enabled \in {<< >>, << <<"p">> >>, << <<"q">> >>},
                 disabled \in DistinctSeqs(ListedNames, MaxSelected)}

\* lines 271-288: None, the enabled names, or the registered names that are
\* not disabled
ProcessorNames(registered, config) ==
    IF ~config.configured THEN Selection(FALSE, << >>)
    ELSE IF config.enabled # << >> THEN Selection(TRUE, config.enabled)
    ELSE IF config.disabled # << >>
    THEN Selection(TRUE, SelectSeq(DictKeys(registered),
                                   LAMBDA p : p \notin Range(config.disabled)))
    ELSE Selection(FALSE, << >>)

\* lines 270-295 for one target
RunTargetProcessors ==
    LET L == Loaded
    IN  \E config \in ProcessorConfigs :
            LET sel == ProcessorNames(L.processors, config)
                r == ProcessGriffeObjectOf(L, sel.given, sel.names)
            IN  /\ SetRegistry(L)
                /\ call' = r.call
                /\ context' = r.context
                /\ invocation' = [op |-> "processors", returned |-> r.call.returned,
                                  config |-> config]
                /\ UNCHANGED <<tree, ignore_patterns, dir, watch, written, log, disk, watcher, threads>>

NextSelect == RunTargetProcessors

SpecSelect == InitProcess /\ [][NextSelect]_vars

(***************************************************************************)
(* A directory generation followed by watching the same tree: the events   *)
(* of the watch are delivered once generate_directory has finished.        *)
(***************************************************************************)
\* the files of the event runs, and a document whose second target fails
RefineKinds ==
    EventKinds
        \cup {File(<< >>, TRUE, DELIMITER \o PLAIN,
                   Doc(TRUE, <<Target(FILENAMES[1], TRUE), Target(FILENAMES[2], FALSE)>>),
                   TRUE)}

\* on_modified or on_created, for a watcher started after the generation
OnEventAfterGeneration ==
    /\ dir.pc = "done"
    /\ watch.returned
    /\ ObserverAlive
    /\ LET L == Loaded
       IN  \E e \in Events, op \in {"on_modified", "on_created"} : Handle(op, e, L)
    /\ UNCHANGED <<tree, ignore_patterns, dir, invocation, watcher, threads>>

InitRefine ==
    /\ InitSession
    /\ disk = StartedDisk
    /\ watcher = Watching
    /\ threads = NoThreads
    /\ tree \in Trees(RefineKinds)
    /\ ignore_patterns \in {<< >>, << <<"?">> >>}

NextRefine ==
    \/ NextDirectory
    \/ OnEventAfterGeneration

SpecRefine == InitRefine /\ [][NextRefine]_vars

(***************************************************************************)
(* Properties of the pipeline (SpecProcess).                               *)
(***************************************************************************)
\* the priority the claim gives a processor
C1_Priority(p) == IF p.hasPriority THEN p.priority ELSE 100

WithPriority(list, v) == SelectSeq(list, LAMBDA p : C1_Priority(p) = v)

Priorities(list) == {C1_Priority(list[i]) : i \in 1..Len(list)}

\* the processor at which the run stopped (the call raised there)
Stopped == call.err.raised /\ call.invoked # << >>
              /\ call.invoked[Len(call.invoked)].raises

\* C1: process() invokes the active processors in ascending priority (no
\* priority counts as 100); processors of equal priority run in the order
\* in which they were collected, which is the registration order when
\* `selected` is omitted and the order of the names otherwise.  (A run that
\* a processor aborts is a prefix of that order.)
C1_ProcessorOrdering ==
    (call.op = "process_griffe_object" /\ loaded
       /\ (call.given => \A i \in 1..Len(call.names) : DictHas(processors, call.names[i])))
    =>
    /\ call.collected =
         (IF call.given
          THEN [i \in 1..Len(call.names) |-> DictGet(processors, call.names[i])]
          ELSE [i \in 1..Len(processors) |-> processors[i].v])
    /\ \A i, j \in 1..Len(call.invoked) :
         i < j => C1_Priority(call.invoked[i]) <= C1_Priority(call.invoked[j])
    /\ \A v \in Priorities(call.collected) :
         /\ IsPrefix(WithPriority(call.invoked, v), WithPriority(call.collected, v))
         /\ (~Stopped \/ v < C1_Priority(call.invoked[Len(call.invoked)]))
              => WithPriority(call.invoked, v) = WithPriority(call.collected, v)

\* a run of three processors that were not collected in priority order,
\* with two different processors of priority 100, one of them by default
C1_Witness ==
    /\ call.op = "process_griffe_object"
    /\ ~call.err.raised
    /\ Len(call.invoked) >= 3
    /\ \E i, j \in 1..Len(call.collected) :
         i < j /\ C1_Priority(call.collected[i]) > C1_Priority(call.collected[j])
    /\ \E i, j \in 1..Len(call.invoked) :
         /\ i < j
         /\ call.invoked[i] # call.invoked[j]
         /\ C1_Priority(call.invoked[i]) = C1_Priority(call.invoked[j])
         /\ call.invoked[i].hasPriority # call.invoked[j].hasPriority

\* C7: if any selected name is not registered, process() fails with
\* PluginError, no processor is invoked (not even those named before the
\* absent name) and the caller's context is not modified.
C7_UnknownName ==
    (call.op = "process_griffe_object" /\ loaded /\ call.given
       /\ \E i \in 1..Len(call.names) : ~DictHas(processors, call.names[i]))
    =>
    /\ call.err.raised
    /\ call.err.type = "PluginError"
    /\ \E i \in 1..Len(call.names) :
         /\ call.err.name = call.names[i]
         /\ ~DictHas(processors, call.names[i])
    /\ call.invoked = << >>
    /\ ~call.returned
    /\ context = FreshContext

\* a selection with a registered name, naming a processor that would write
\* through the context, before the absent one
C7_Witness ==
    /\ call.op = "process_griffe_object"
    /\ call.given
    /\ Len(call.names) >= 2
    /\ DictHas(processors, call.names[1])
    /\ DictGet(processors, call.names[1]).deep
    /\ ~DictHas(processors, call.names[2])
    /\ call.err.type = "PluginError"

\* the names under which processor p is registered
RegisteredNames(p) ==
    {processors[i].k : i \in {j \in 1..Len(processors) : processors[j].v = p}}

\* C8: if a processor raises during process(), the call fails with a
\* PluginError that names the failing processor by the name it is
\* registered under, no later processor is invoked and nothing is returned.
C8_FailureNamesProcessor ==
    (call.op = "process_griffe_object" /\ loaded /\ call.invoked # << >>
       /\ call.invoked[Len(call.invoked)].raises)
    =>
    /\ call.err.raised
    /\ call.err.type = "PluginError"
    /\ call.err.name \in RegisteredNames(call.invoked[Len(call.invoked)])
    /\ Len(call.invoked) <= Len(call.collected)
    /\ ~call.returned

(***************************************************************************)
(* Properties of the registry (SpecRegistry).                              *)
(***************************************************************************)
\* C6: once load() has completed, no later call (load, an accessor or
\* process) runs discovery again or changes the three maps; the maps
\* change only in a call that runs discovery.
C6_LoadIdempotent ==
    [][/\ loaded =>
            /\ processors' = processors
            /\ filters' = filters
            /\ bundles' = bundles
            /\ loaded'
            /\ ~call'.discovered
       /\ (processors' # processors \/ filters' # filters \/ bundles' # bundles)
            => (~loaded /\ call'.discovered)]_registryVars

\* a call other than load() on a registry that is loaded and not empty
C6_Witness ==
    /\ loaded
    /\ call.op \in {"get_processors", "get_filters", "get_bundles", "list_plugins",
                    "get_bundle_info", "process_griffe_object"}
    /\ ~call.discovered
    /\ processors # << >>
    /\ filters # << >>
    /\ bundles # << >>

\* the installed entries whose load() raises
Broken == {all_entry_points[i] : i \in {j \in 1..Len(all_entry_points) :
                                           ~all_entry_points[j].ok}}

\* C9: if an entry of any of the three groups fails to load, load() fails
\* with PluginLoadError naming that entry and its group; it never
\* completes as a successful load with that entry missing.
C9_BrokenEntryAbortsLoad ==
    /\ loaded => Broken = {}
    /\ (call.discovered /\ Broken # {}) =>
         /\ call.err.raised
         /\ call.err.type = "PluginLoadError"
         /\ \E e \in Broken : call.err.name = e.name /\ call.err.group = e.group
         /\ ~call.returned
         /\ ~loaded

\* a load that a broken bundle entry aborted after the other groups loaded
C9_Witness ==
    /\ call.discovered
    /\ call.err.type = "PluginLoadError"
    /\ call.err.group = G_BUNDLES
    /\ processors # << >>
    /\ ~loaded

\* the processor candidates of the configured modules that load() has
\* instantiated, as <<module, attribute>> pairs
LocalComponents ==
    {<<local_plugin_modules[i], a>> :
        i \in {j \in 1..Len(local_plugin_modules) : ImportOK(local_plugin_modules[j])},
        a \in UNION {Range(ModuleAttrs(m)) : m \in ModuleNames}}

Registered(mc) ==
    /\ mc[2] \in Range(ModuleAttrs(mc[1]))
    /\ IsProcessorCandidate(mc[2])
    /\ mc[2].instOK

\* the component a bare name belongs to: the entry point of that name, else
\* the first component of that name in module order and attribute order
RECURSIVE FirstLocal(_, _, _)
FirstLocal(mods, i, name) ==
    IF i > Len(mods) THEN NoInstance
    ELSE LET attrs == IF ImportOK(mods[i]) THEN ModuleAttrs(mods[i]) ELSE << >>
             hits == SelectSeq(attrs, LAMBDA a : IsProcessorCandidate(a) /\ a.instOK
                                                   /\ ProcessorName(a) = name)
         IN  IF hits # << >> THEN hits[1].instance ELSE FirstLocal(mods, i + 1, name)

\* the instances of module m's registered components named `name`
OwnComponents(m, name) ==
    {a.instance : a \in {x \in Range(ModuleAttrs(m)) :
                            IsProcessorCandidate(x) /\ x.instOK
                              /\ ProcessorName(x) = name}}

\* C10: after load(), a bare name maps to the first component registered
\* under it (an entry point or an earlier module's component is never
\* overwritten by a later module's component), and every registered local
\* component c of module m is reachable under "m.c", which maps to a
\* component of that name of module m itself.
C10_NameCollisions ==
    loaded =>
        \A mc \in {x \in LocalComponents : Registered(x)} :
            LET name == ProcessorName(mc[2])
                eps == SelectGroup(all_entry_points, G_PROCESSORS)
                fromEP == SelectSeq(eps, LAMBDA e : e.name = name)
            IN  /\ DictHas(processors, name)
                /\ DictGet(processors, name) =
                     (IF fromEP # << >> THEN fromEP[Len(fromEP)].value
                      ELSE FirstLocal(local_plugin_modules, 1, name))
                /\ DictHas(processors, Qualified(mc[1], name))
                /\ DictGet(processors, Qualified(mc[1], name))
                     \in OwnComponents(mc[1], name)


(***************************************************************************)
(* Properties of directory generation (SpecDirectory).                     *)
(***************************************************************************)
\* every installed entry point loads
RegistryLoads == \A i \in 1..Len(all_entry_points) : all_entry_points[i].ok

\* the file cannot be generated or copied
FileFails(f) ==
    IF Len(f.content) >= 4 /\ SubSeq(f.content, 1, 4) = <<"-", "-", "-", "\n">>
    THEN \/ ~f.doc.parseOK
         \/ ~RegistryLoads
         \/ \E i \in 1..Len(f.doc.output) : ~f.doc.output[i].ok
    ELSE ~f.copyOK

\* the scan found files and every one of them has had its turn
AllAttempted == dir.pc = "finish" \/ (dir.pc = "done" /\ dir.all_files # << >>)

\* C2: in directory generation every annotated and every passthrough file
\* the scan found is attempted, whatever failed before it; nothing is
\* raised or returned before that; the errors then name exactly the files
\* that failed, once each and with the cause; if a file failed exactly one
\* aggregate GenerationError is raised and nothing is returned, and
\* otherwise the call returns all the generated and copied paths.
C2_DirectoryAggregateFailure ==
    LET files == dir.frontmatter_files \o dir.passthrough_files
        failed == {f \in Range(files) : FileFails(f)}
    IN  /\ dir.pc \in {"frontmatter", "passthrough", "finish"}
               => dir.raised = 0 /\ ~dir.returned
        /\ AllAttempted =>
               /\ Range(files) = Range(dir.all_files)
               /\ dir.attempted = [i \in 1..Len(files) |-> files[i].path]
               /\ {e.src : e \in Range(dir.errors)} = {f.path : f \in failed}
               /\ Len(dir.errors) = Cardinality(failed)
               /\ \A e \in Range(dir.errors) :
                      e.raised /\ e.type \in {"GenerationError", "ValueError", "PluginError"}
        /\ (dir.pc = "done" /\ dir.all_files # << >>) =>
               IF failed # {}
               THEN dir.raised = 1 /\ ~dir.returned
               ELSE /\ dir.raised = 0 /\ dir.returned
                    /\ Range(dir.result) = {w.out : w \in written}
                    /\ \A f \in Range(dir.passthrough_files) :
                           \E i \in 1..Len(dir.result) :
                               dir.result[i] = OUTPUT_DIR \o RelativeTo(f.path, SOURCE_DIR)

\* a run whose first file failed and whose second file was still copied,
\* ending in the aggregate error
C2_Witness ==
    /\ dir.pc = "done"
    /\ dir.raised = 1
    /\ Len(dir.attempted) = 2
    /\ Len(dir.errors) = 1
    /\ dir.errors[1].src = dir.attempted[1]
    /\ \E w \in written : w.src = dir.attempted[2]

\* the output path of the i-th target of file f
OutputOf(f, i) ==
    Append(TargetOutputDir(f.path, SOURCE_DIR, OUTPUT_DIR), f.doc.output[i].filename)

\* the targets of f that fail
FailingTargets(f) == {i \in 1..Len(f.doc.output) : ~f.doc.output[i].ok}

\* the annotated files whose turn is over
Generated ==
    {dir.frontmatter_files[j] : j \in
        {j \in 1..Len(dir.frontmatter_files) :
            dir.pc \in {"passthrough", "finish", "done"}
                \/ (dir.pc = "frontmatter" /\ j < dir.i)}}

Matches(path) ==
    \E i \in 1..Len(ignore_patterns) :
        Fnmatch(Normalise(PathStr(RelativeTo(path, SOURCE_DIR))), ignore_patterns[i])

\* C4: for a file under the source root whose root-relative,
\* "/"-separated path matches an ignore glob no output is ever written,
\* by a directory scan or by any create or modify events handled with the
\* same globs, and the scan and the handler decide "ignored" the same way
\* for every file.
C4_IgnoreExclusion ==
    /\ \A f \in Range(tree) :
           ShouldIgnore(f.path, SOURCE_DIR, ignore_patterns)
               = IsIgnored(f.path, SOURCE_DIR, ignore_patterns)
    /\ \A f \in Range(tree) :
           Matches(f.path) =>
               /\ \A w \in written : w.src # f.path
               /\ f \notin Range(dir.all_files)
               /\ f.path \notin Range(dir.attempted)
               /\ (watch.op # "" /\ watch.src_path = f.path)
                      => watch.outcome = "ignored"

\* the file named "b\a" is ignored under the glob "b/*" when an event for
\* it arrives, after another file of the tree has been written
C4_Witness ==
    /\ ignore_patterns = << <<"b", "/", "*">> >>
    /\ watch.op = "on_modified"
    /\ watch.src_path = TREE_PATHS[2]
    /\ watch.outcome = "ignored"
    /\ \E w \in written : w.src = TREE_PATHS[1]

(***************************************************************************)
(* Properties of the classification (SpecCategorise).                      *)
(***************************************************************************)
\* C5: categorise_files(files) is a partition: every input file is in
\* exactly one of the two lists and nothing else is in them; a file is
\* annotated exactly when it can be read and its content starts with the
\* delimiter line; a file that cannot be read is passthrough.
C5_CategorisePartition ==
    dir.pc = "categorised" =>
        LET annotated == dir.frontmatter_files
            passthrough == dir.passthrough_files
        IN  /\ \A f \in Range(tree) :
                   (f \in Range(annotated)) # (f \in Range(passthrough))
            /\ Range(annotated) \cup Range(passthrough) \subseteq Range(tree)
            /\ Len(annotated) + Len(passthrough) = Len(tree)
            /\ \A f \in Range(tree) :
                   f \in Range(annotated) <=>
                       /\ f.readable
                       /\ Len(f.content) >= 4
                       /\ SubSeq(f.content, 1, 4) = <<"-", "-", "-", "\n">>
            /\ \A f \in Range(tree) : ~f.readable => f \in Range(passthrough)

\* an unreadable file whose bytes start with the delimiter is classified
\* passthrough next to a readable annotated one
C5_Witness ==
    /\ dir.pc = "categorised"
    /\ Len(dir.frontmatter_files) = 1
    /\ \E f \in Range(dir.passthrough_files) :
           ~f.readable /\ IsPrefix(DELIMITER, f.content)

(***************************************************************************)
(* Properties of the watch handler (SpecEvents).                           *)
(***************************************************************************)
\* the registry of a handler that has handled nothing yet
FreshRegistry ==
    Discover([processors |-> << >>, filters |-> << >>, bundles |-> << >>,
              loaded |-> FALSE], all_entry_points, local_plugin_modules)

\* the file of the last event
Touched == FileAt(watch.src_path)

\* the last event is for a readable file under the source root that no
\* glob matches
Regenerated ==
    /\ watch.op # ""
    /\ ~watch.is_directory
    /\ IsPrefix(SOURCE_DIR, watch.src_path)
    /\ ~Matches(watch.src_path)
    /\ Touched.readable

\* C11: for every create or modify event the handler returns normally,
\* whatever generate_file or copy_file_passthrough raised, and an event is
\* handled as it would be by a handler that had seen no failure before.
C11_HandlerReturns ==
    watch.op # "" =>
        /\ watch.returned
        /\ watch.outcome =
               OnEvent(Event(watch.src_path, watch.is_directory), FreshRegistry).outcome

\* a file is copied by an event that follows one whose generation failed
\* on loading the plugins
C11_Witness ==
    /\ call.op = "get_filters"
    /\ call.err.raised
    /\ watch.outcome = "copied"
    /\ watch.returned

\* C12: whenever regeneration of a readable, non-ignored file inside the
\* source root fails in watch mode, whatever the kind of failure, the
\* handler reports the failure for that file to the operator.
C12_FailureReported ==
    (Regenerated /\ FileFails(Touched)) => watch.reported

\* C18: the handler writes nothing and calls neither generate_file nor
\* copy_file_passthrough for a directory event, for a path outside the
\* source root (with or without ignore globs) and for a file that cannot
\* be read; for the unreadable file no error is reported.
C18_NothingForSkippedEvents ==
    watch.op # "" =>
        /\ (watch.is_directory \/ ~IsPrefix(SOURCE_DIR, watch.src_path)
                \/ ~Touched.readable)
               => watch.invoked = "" /\ watch.wrote = {}
        /\ (~watch.is_directory /\ ~Touched.readable) => ~watch.reported

\* an event for an unreadable file of the tree, under no glob, was skipped
C18_Witness ==
    /\ watch.op = "on_created"
    /\ ignore_patterns = << >>
    /\ \E i \in 1..Len(tree) : tree[i].path = watch.src_path /\ ~tree[i].readable
    /\ watch.outcome = "skipped"
    /\ watch.invoked = ""

(***************************************************************************)
(* Properties of the direct calls (SpecFile).                              *)
(***************************************************************************)
\* the file of the last direct call and the directory of its outputs
Called == invocation.f

CalledOutputDir == TargetOutputDir(Called.path, invocation.source_dir, OUTPUT_DIR)

\* generate_file was called on a document that parses
ValidDocument ==
    /\ invocation.op = "generate_file"
    /\ Called.readable
    /\ Called.doc.parseOK

\* what the pipeline run of a target does on the registry of the call
PipelineRun == ProcessGriffeObjectOf(Loaded, FALSE, << >>).call

\* target i of the called document fails once it is reached: one of its
\* own steps raises, or a processor raises in its pipeline run; no target
\* is reached before the template loader has loaded the registry
TargetFails(i) ==
    /\ RegistryLoads
    /\ (Called.doc.output[i].step # "" \/ PipelineRun.err.raised)

\* the call returned one path per target, in target order, and each file
\* holds the rendering of the template against the processed context
AllRendered ==
    /\ invocation.returned
    /\ Len(invocation.paths) = Len(Called.doc.output)
    /\ \A i \in 1..Len(Called.doc.output) :
           /\ invocation.paths[i] = Append(CalledOutputDir, Called.doc.output[i].filename)
           /\ [path |-> invocation.paths[i],
               content |-> Render(Called.path, i, PipelineRun.value)] \in disk.files

CalledFailing == {i \in 1..Len(Called.doc.output) : TargetFails(i)}

\* the exception target i raises: that of its first failing step
CauseOf(i) ==
    LET step == Called.doc.output[i].step
    IN  IF step \in {"merge", "load"} THEN StepError(step)
        ELSE IF PipelineRun.err.raised THEN PipelineRun.err.type
        ELSE StepError(step)

\* C14: in a single-file call, when a target fails at any of its steps
\* (config merge, symbol load, pipeline run, render, write), generate_file
\* raises at once a GenerationError that carries the target's filename and
\* the source path and wraps the cause; the targets before it were
\* generated and no target after it is attempted.
C14_TargetFailureRaisedAtOnce ==
    (ValidDocument /\ CalledFailing # {}) =>
        LET k == CHOOSE k \in CalledFailing : \A i \in CalledFailing : k <= i
        IN  /\ ~invocation.returned
            /\ invocation.err.raised
            /\ invocation.err.type = "GenerationError"
            /\ invocation.err.filename = Called.doc.output[k].filename
            /\ invocation.err.src = Called.path
            /\ invocation.err.cause = CauseOf(k)
            /\ invocation.err.cause # ""
            /\ invocation.targets = [i \in 1..k |-> i]
            /\ \A i \in (k + 1)..Len(Called.doc.output) :
                   \A e \in disk.files :
                       e.path # Append(CalledOutputDir, Called.doc.output[i].filename)

\* the first of two targets failed on rendering: the error names it and
\* the second target, which would generate, was not attempted
C14_Witness ==
    /\ ValidDocument
    /\ Len(Called.doc.output) = 2
    /\ Called.doc.output[1].step = "render"
    /\ Called.doc.output[2].step = ""
    /\ invocation.err.type = "GenerationError"
    /\ invocation.err.cause = "TemplateError"
    /\ invocation.targets = <<1>>

(***************************************************************************)
(* The message of the aggregate error (SpecDirectory).                     *)
(***************************************************************************)
\* the files of the run that did not fail
Succeeded == {f \in Range(dir.frontmatter_files \o dir.passthrough_files) : ~FileFails(f)}

\* C15: when directory generation ends with some files failed and some
\* succeeded, the aggregate GenerationError states a success count, and
\* the count is the number of files that did not fail.
C15_SuccessCountReported ==
    (dir.pc = "done" /\ dir.raised = 1 /\ Succeeded # {}) =>
        /\ "successes" \in DOMAIN dir.error_msg
        /\ dir.error_msg.successes = Cardinality(Succeeded)

(***************************************************************************)
(* Properties of copy_file_passthrough (SpecFile).                         *)
(***************************************************************************)
\* copy_file_passthrough was called on a file under the source root
CopyUnderRoot ==
    /\ invocation.op = "copy_file_passthrough"
    /\ IsRelativeTo(Called.path, invocation.source_dir)

\* the call returned output_root / relative(f, source_root), the
\* directories down to it exist, the file there holds the content of f,
\* and f is as it was
CopiedInPlace ==
    LET output_file == OUTPUT_DIR \o RelativeTo(Called.path, invocation.source_dir)
    IN  /\ invocation.returned
        /\ invocation.paths = <<output_file>>
        /\ Dirs(Parent(output_file)) \subseteq disk.dirs
        /\ [path |-> output_file, content |-> Called.content] \in disk.files
        /\ \E i \in 1..Len(tree) : tree[i] = Called

C17_OutsideRootFails ==
    [][(/\ invocation'.op = "copy_file_passthrough"
        /\ ~IsRelativeTo(invocation'.f.path, invocation'.source_dir))
          => /\ ~invocation'.returned
             /\ invocation'.err.raised
             /\ invocation'.err.type = "GenerationError"
             /\ disk' = disk
             /\ written' = written]_vars

\* a file outside the given root was refused and the output tree is empty
C17_Witness ==
    /\ invocation.op = "copy_file_passthrough"
    /\ ~IsRelativeTo(Called.path, invocation.source_dir)
    /\ invocation.err.type = "GenerationError"
    /\ disk = EmptyDisk

(***************************************************************************)
(* Properties of DocumentationWatcher.watch (SpecLifecycle).               *)
(***************************************************************************)
\* C19: watch() does not return unless an interrupt has been requested;
\* when it returns, the observer has been started, then stopped and then
\* joined, its thread has ended, and from then on no event handler runs.
C19_WatchReturnsAfterJoin ==
    /\ [](watcher.exit = "returned" =>
              /\ watcher.interrupted
              /\ watcher.calls = <<"start", "stop", "join">>
              /\ ~ObserverAlive)
    /\ [][watcher.exit = "returned" =>
              /\ watch' = watch
              /\ written' = written
              /\ disk' = disk]_vars

\* watch() returned after an interrupt, having handled an event that
\* wrote an output while it was watching
C19_Witness ==
    /\ watcher.exit = "returned"
    /\ watcher.interrupted
    /\ watch.op # ""
    /\ watch.wrote # {}

(***************************************************************************)
(* Properties of the local modules (SpecRegistry).                         *)
(***************************************************************************)
\* the configured modules whose import fails, and the others in order
FailedImports == {m \in Range(local_plugin_modules) : ~ImportOK(m)}

Imported == SelectSeq(local_plugin_modules, ImportOK)

\* the registry a load leaves when only the modules `mods` are configured
Without(mods) ==
    Discover([processors |-> << >>, filters |-> << >>, bundles |-> << >>,
              loaded |-> FALSE], all_entry_points, mods)

\* the keys of the two maps that are qualified by module m
KeysUnder(m) ==
    {k \in Range(DictKeys(processors)) \cup Range(DictKeys(filters)) :
        IsPrefix(m \o <<".">>, k)}

\* the processor candidates of module m, as attributes
Candidates(m) == {a \in Range(ModuleAttrs(m)) : IsProcessorCandidate(a)}

\* C20: a configured local module whose import fails does not make load()
\* fail: the load completes and marks the registry loaded, no key is
\* registered under that module's name, and the registry holds what it
\* would hold with only the other modules configured (their components
\* and those of all entry points); a processor class whose constructor
\* raises gets no key, and the other candidates of its module are
\* registered under their qualified names, as are the module's filters.
C20_FailedImportSkipped ==
    /\ (call.discovered /\ Broken = {}) => loaded
    /\ loaded =>
           /\ processors = Without(Imported).processors
           /\ filters = Without(Imported).filters
           /\ bundles = Without(Imported).bundles
           /\ \A m \in FailedImports : KeysUnder(m) = {}
           /\ \A m \in Range(Imported) :
                  (\E a \in Candidates(m) : ~a.instOK) =>
                      /\ \A a \in Candidates(m) :
                             IF a.instOK
                             THEN /\ DictHas(processors, Qualified(m, ProcessorName(a)))
                                  /\ DictGet(processors, Qualified(m, ProcessorName(a)))
                                         \in OwnComponents(m, ProcessorName(a))
                             ELSE /\ ~DictHas(processors,
                                              Qualified(m, ClassNameToSnakeCase(a.attr)))
                                  /\ ~DictHas(processors, ClassNameToSnakeCase(a.attr))
                      /\ \A a \in Range(ModuleAttrs(m)) :
                             IsFilterCandidate(a) =>
                                 /\ DictHas(filters, Qualified(m, a.attr))
                                 /\ DictGet(filters, Qualified(m, a.attr)) = FilterOf(m, a)

\* a load with a module that does not import configured before one that
\* has a class whose constructor raises: the registry is loaded and holds
\* the second module's working processor
C20_Witness ==
    /\ loaded
    /\ local_plugin_modules = <<M_x, M_n>>
    /\ all_entry_points # << >>
    /\ DictHas(processors, Qualified(M_n, <<"p">>))
    /\ KeysUnder(M_x) = {}

(***************************************************************************)
(* Properties of the parser (SpecParse).                                   *)
(***************************************************************************)
\* C21: parse_frontmatter_file returns no GenerationSpec for a document
\* that is empty, that starts with the delimiter but has a malformed
\* block, whose metadata is not a mapping, that lacks `template`, whose
\* `output` is missing or an empty list, or whose template has no
\* recognized extension; every GenerationSpec it returns has a template
\* with a recognized extension and at least one output target.
C21_ParseRejectsInvalid ==
    (invocation.op = "parse_frontmatter_file" /\ invocation.returned) =>
        LET d == invocation.f
        IN  /\ d.head = "---" /\ d.closed
            /\ d.data.type = "dict"
            /\ d.data.template \in {"t.jinja2", "t.j2"}
            /\ d.data.output.type = "list"
            /\ d.data.output.items # << >>
            /\ invocation.frontmatter.template \in {"t.jinja2", "t.j2"}
            /\ Len(invocation.frontmatter.output) >= 1


(***************************************************************************)
(* Properties of the accessors (SpecAccess).                               *)
(***************************************************************************)
\* the registry map an accessor returns
MapOf(op) ==
    IF op = "get_processors" THEN processors
    ELSE IF op = "get_filters" THEN filters ELSE bundles

\* C22: get_processors, get_filters and get_bundles each trigger the load
\* and return a fresh map: the map returned equals the registry's loaded map
\* and is an object of its own, so that a caller adding, removing or
\* replacing keys in it changes none of the registry's maps, and the map a
\* later accessor returns is the registry's unchanged one.
C22_AccessorsReturnCopies ==
    /\ []((call.op \in AccessorOps /\ call.returned) =>
            /\ loaded
            /\ call.owner = ""
            /\ ~call.mutated => call.value = MapOf(call.op))
    /\ [][(call'.mutated /\ ~(call.mutated /\ call'.value = call.value)) =>
            (processors' = processors /\ filters' = filters /\ bundles' = bundles)]_vars

\* a caller changed a returned map that was not empty, and the registry's
\* map is not what the caller holds
C22_Witness ==
    /\ call.op \in AccessorOps
    /\ call.mutated
    /\ MapOf(call.op) # << >>
    /\ call.value # MapOf(call.op)


(***************************************************************************)
(* Properties of racing callers (SpecRace).                                *)
(***************************************************************************)
\* the callers that ran the discovery
Discoverers == {t \in ThreadIds : threads[t].discovered}

\* the maps one discovery on an empty registry leaves
FullMaps ==
    LET L == Discover(Registry(<< >>, << >>, << >>, FALSE, NoError, FALSE),
                      all_entry_points, local_plugin_modules)
    IN  Maps(L.processors, L.filters, L.bundles)

\* the names registered in each of the three maps
KeysOf(maps) ==
    [processors |-> Range(DictKeys(maps.processors)),
     filters |-> Range(DictKeys(maps.filters)),
     bundles |-> Range(DictKeys(maps.bundles))]

\* C23: when two handlers call a registry operation at the same time on a
\* registry that is not loaded yet, the discovery runs exactly once and
\* every caller that gets maps gets them with every name registered.
C23_DiscoveryRunsOnce ==
    /\ Cardinality(Discoverers) <= 1
    /\ \A t \in ThreadIds : threads[t].pc = "done" => KeysOf(threads[t].value) = KeysOf(FullMaps)


(***************************************************************************)
(* Properties of merge_griffe_config (SpecMerge).                          *)
(***************************************************************************)
KeySet(items) == {items[i].k : i \in 1..Len(items)}

\* a dict as the function from its keys to its values, nested dicts too
RECURSIVE AsMap(_)
AsMap(v) ==
    IF v.type = "dict"
    THEN [type |-> "dict", val |-> "",
          items |-> [k \in KeySet(v.items) |-> AsMap(DictGet(v.items, k))]]
    ELSE v

\* the reference deep merge: every key of either dict; two dicts under one
\* key merged; otherwise the document's value; the default's where the
\* document has none
RECURSIVE ReferenceMerge(_, _)
ReferenceMerge(default, document) ==
    [type |-> "dict", val |-> "",
     items |->
        [k \in KeySet(default) \cup KeySet(document) |->
            IF k \notin KeySet(document) THEN AsMap(DictGet(default, k))
            ELSE IF k \notin KeySet(default) THEN AsMap(DictGet(document, k))
            ELSE IF DictGet(default, k).type = "dict" /\ DictGet(document, k).type = "dict"
            THEN ReferenceMerge(DictGet(default, k).items, DictGet(document, k).items)
            ELSE AsMap(DictGet(document, k))]]

\* C24: merge_griffe_config(default, document) is the reference deep merge
\* of nested dicts: every key of either input is in the result; where both
\* values are dicts they are merged recursively; otherwise the document's
\* value wins, a scalar replacing a dict and a dict a scalar; keys of the
\* default alone are kept; and neither input is modified.
C24_MergeIsDeepMerge ==
    invocation.op = "merge_griffe_config" =>
        /\ AsMap(DictValue(invocation.result))
               = ReferenceMerge(invocation.default, invocation.document)
        /\ invocation.default_after = invocation.default
        /\ invocation.document_after = invocation.document

\* a merge that recursed into a dict of both inputs, replaced a dict by a
\* scalar there, and kept a key of the default alone
C24_Witness ==
    /\ invocation.op = "merge_griffe_config"
    /\ invocation.default =
           <<Item("a", DictValue(<<Item("a", DictValue(<<Item("a", Scalar("x"))>>))>>)),
             Item("b", Scalar("x"))>>
    /\ invocation.document = <<Item("a", DictValue(<<Item("a", Scalar("y"))>>))>>
    /\ invocation.result =
           <<Item("a", DictValue(<<Item("a", Scalar("y"))>>)), Item("b", Scalar("x"))>>


(***************************************************************************)
(* Properties of the processor selection (SpecSelect).                     *)
(***************************************************************************)
\* the processor objects registered under the names of `names`
NamedBy(names) ==
    {DictGet(processors, names[i]) :
        i \in {j \in 1..Len(names) : DictHas(processors, names[j])}}

\* C25: a processor named in the document's `disabled` list is not invoked
\* for a target of the document; and when `enabled` is empty and `disabled`
\* is not, the processors invoked are exactly the registered ones that are
\* not disabled.
C25_DisabledNotInvoked ==
    (invocation.op = "processors" /\ invocation.config.configured) =>
        /\ NamedBy(invocation.config.disabled) \cap Range(call.invoked) = {}
        /\ (invocation.config.enabled = << >> /\ invocation.config.disabled # << >>
                /\ call.returned) =>
              Range(call.invoked)
                  = Range(DictValues(processors)) \ NamedBy(invocation.config.disabled)


\* the number of times the processor p was invoked
Invocations(p) == Cardinality({i \in 1..Len(call.invoked) : call.invoked[i] = p})

\* C26: in one process_griffe_object call without processor_names that
\* runs to its end, every registered processor object is invoked exactly
\* once, a local processor registered under its bare and its qualified name
\* included.
C26_EachProcessorOnce ==
    (call.op = "process_griffe_object" /\ ~call.given /\ call.returned) =>
        \A p \in Range(DictValues(processors)) : Invocations(p) = 1


(***************************************************************************)
(* Properties of watching after a generation (SpecRefine).                 *)
(***************************************************************************)
\* the output paths the operation `by` wrote for the source file at `path`,
\* each with the content written
WritesOf(by, path) ==
    {[out |-> r.out, content |-> r.content] : r \in {x \in log : x.by = by /\ x.src = path}}

\* the file of the last event, when it is a readable file under the source
\* root that no ignore pattern matches
WatchedFile ==
    /\ watch.op # ""
    /\ ~watch.is_directory
    /\ IsRelativeTo(watch.src_path, SOURCE_DIR)
    /\ FileAt(watch.src_path).readable
    /\ ~ShouldIgnore(watch.src_path, SOURCE_DIR, ignore_patterns)
    /\ ~IsIgnored(watch.src_path, SOURCE_DIR, ignore_patterns)

DirectoryWrites == {x \in log : x.by = "generate_directory"}

\* C28: within one directory generation no two distinct source files write
\* the same output path, so that the output tree does not depend on the
\* order in which the files are processed.
C28_OutputPathsDisjoint ==
    \A x \in DirectoryWrites, y \in DirectoryWrites : x.out = y.out => x.src = y.src


\* the call raised an error of `type`, not wrapped, leaving no directory
\* made and no output written
RaisedBeforeOutput(type) ==
    /\ ~invocation.returned
    /\ invocation.err.raised
    /\ invocation.err.type = type
    /\ invocation.err.cause = ""
    /\ invocation.dirs = {}
    /\ invocation.wrote = << >>
    /\ \A x \in log : ~(x.by = "generate_file" /\ x.src = invocation.f.path)

\* C29: generate_file on a source file that does not exist raises
\* FileNotFoundError, and on a file with invalid frontmatter the parser's
\* ValueError; neither is wrapped in GenerationError, and both are raised
\* before the output directory is made or any output is written.
C29_ParseErrorsUnwrapped ==
    invocation.op = "generate_file" =>
        /\ ~Exists(invocation.f.path) => RaisedBeforeOutput("FileNotFoundError")
        /\ (Exists(invocation.f.path) /\ invocation.f.readable /\ ~invocation.f.doc.parseOK)
               => RaisedBeforeOutput("ValueError")

\* a call on a missing file raised FileNotFoundError, after an earlier call
\* had made the output directory
C29_Witness ==
    /\ invocation.op = "generate_file"
    /\ ~Exists(invocation.f.path)
    /\ invocation.err.type = "FileNotFoundError"
    /\ disk.dirs # {}


\* the last call ended in the PluginLoadError of a failed entry point
LoadFailed == call.op # "" /\ call.err.raised /\ call.err.type = "PluginLoadError"

\* the entry points of the failing group that come before the first broken one
BeforeFailure ==
    LET entries == SelectGroup(all_entry_points, call.err.group)
        k == CHOOSE i \in 1..Len(entries) :
                 ~entries[i].ok /\ \A j \in 1..(i - 1) : entries[j].ok
    IN  {entries[j] : j \in 1..(k - 1)}

\* the entry points of the groups that are loaded before the failing group
EarlierGroups ==
    {e \in Range(all_entry_points) :
        \/ e.group = G_PROCESSORS /\ call.err.group # G_PROCESSORS
        \/ e.group = G_FILTERS /\ call.err.group = G_BUNDLES}

\* the entry point e is in the registry's map of its group
InMap(e) ==
    IF e.group = G_PROCESSORS THEN DictHas(processors, e.name) /\ DictGet(processors, e.name) = e.value
    ELSE DictHas(filters, e.name) /\ DictGet(filters, e.name) = e.value

\* C30: when load_plugins fails with PluginLoadError the registry stays
\* not loaded and the entries registered before the failing entry stay in
\* the maps; the next load, accessor or process call runs the whole
\* discovery again, and fails again, and serves nothing from the partial
\* maps.
C30_FailedLoadStaysUnloaded ==
    /\ [](LoadFailed =>
            /\ ~loaded
            /\ call.discovered
            /\ ~call.returned
            /\ call.value = << >>
            /\ \A e \in EarlierGroups : InMap(e)
            /\ call.err.group # G_BUNDLES => \A e \in BeforeFailure : InMap(e))
    /\ [][LoadFailed =>
            /\ call'.discovered
            /\ call'.err = call.err
            /\ ~call'.returned
            /\ ~loaded'
            /\ <<processors', filters', bundles'>> = <<processors, filters, bundles>>]_vars

\* a load failed at the second entry of a group after registering the first
C30_Witness ==
    /\ LoadFailed
    /\ BeforeFailure # {}
    /\ \A e \in BeforeFailure : InMap(e)
    /\ ~loaded

====
